---- MODULE Spec2Model ----
(***************************************************************************)
(* A model of jsonbb (flat-json): the 4-byte tagged Entry, the byte buffer *)
(* an owned Value holds, the builder that writes it, the borrowed views    *)
(* that read it, and the operations of Value (from_text, object, array,    *)
(* array_push, object_insert, eq, cmp).                                    *)
(*                                                                         *)
(* Buffers are sequences of bytes.  "Native" byte order is little endian,  *)
(* the order of the hosts the crate is built for; nothing below depends on *)
(* the choice beyond U32Bytes/GetU32 being inverse to each other.          *)
(* Offsets in the source are 0-based; sequences here are 1-based, so       *)
(* data[off + 1] is the byte at offset off.                                *)
(***************************************************************************)
EXTENDS Integers, Sequences, FiniteSets, TLC

VARIABLES
    buffer,     \* Value.buffer of the value the program holds (value.rs:12)
    op,         \* the last operation called on it
    outcome,    \* "ok" | "err" (an Err was returned) | "panic" (the call unwound)
    pre,        \* the buffer before the last operation
    arg,        \* the value argument of the last operation, as that Value's buffer
    key,        \* the key argument of the last operation
    input,      \* the input the constructor was given (text, document, pairs, views)
    calls,      \* the number of mutator calls so far
    lhs, rhs, third,   \* three Values under comparison
    ord,        \* the comparisons computed for them
    builder,    \* the Builder a from_text call under way writes to
    result      \* what the last accessor or Entry function returned

vars ==
    <<buffer, op, outcome, pre, arg, key, input, calls, lhs, rhs, third, ord,
      builder, result>>

(***************************************************************************)
(* Bytes and words                                                         *)
(***************************************************************************)

\* buffer.put_u32_ne(n): the four bytes of a u32
U32Bytes(n) ==
    <<n % 256, (n \div 256) % 256, (n \div 65536) % 256, (n \div 16777216) % 256>>

\* (&data[at..]).get_u32_ne(): the u32 stored at offset at
GetU32(data, at) ==
    data[at + 1] + 256 * data[at + 2] + 65536 * data[at + 3] + 16777216 * data[at + 4]

\* &data[from..to]
Slice(data, from, to) == SubSeq(data, from + 1, to)

RECURSIVE BitOr(_, _)
\* a | b on naturals
BitOr(a, b) ==
    IF a = 0 THEN b
    ELSE IF b = 0 THEN a
    ELSE (IF a % 2 = 1 \/ b % 2 = 1 THEN 1 ELSE 0) + 2 * BitOr(a \div 2, b \div 2)

RECURSIVE Pow2(_)
Pow2(n) == IF n = 0 THEN 1 ELSE 2 * Pow2(n - 1)

RECURSIVE Concat(_)
\* the concatenation of a sequence of byte sequences
Concat(ss) == IF ss = <<>> THEN <<>> ELSE Head(ss) \o Concat(Tail(ss))

\* std::cmp::Ordering
Ordering == {"Less", "Equal", "Greater"}

\* Ord::cmp on integers
IntCmp(a, b) == IF a < b THEN "Less" ELSE IF a > b THEN "Greater" ELSE "Equal"

\* Ordering::reverse
Reverse(o) == IF o = "Less" THEN "Greater" ELSE IF o = "Greater" THEN "Less" ELSE "Equal"

RECURSIVE BytesCmp(_, _)
\* <[u8] as Ord>::cmp, which is also str::cmp: lexicographic over the bytes
BytesCmp(a, b) ==
    IF a = <<>> /\ b = <<>> THEN "Equal"
    ELSE IF a = <<>> THEN "Less"
    ELSE IF b = <<>> THEN "Greater"
    ELSE IF Head(a) # Head(b) THEN IntCmp(Head(a), Head(b))
    ELSE BytesCmp(Tail(a), Tail(b))

(***************************************************************************)
(* Entry (entry.rs)                                                        *)
(***************************************************************************)

LEN_MASK == 536870911
NULL_TAG == 0
STRING_TAG == 1
NUMBER_TAG == 2
FALSE_TAG == 3
TRUE_TAG == 4
ARRAY_TAG == 5
OBJECT_TAG == 6

\* u32::from_ne_bytes(self.0) >> 29
EntryTag(e) == e[4] \div 32

\* (u32::from_ne_bytes(self.0) & LEN_MASK) as usize
EntryOffset(e) == (e[4] % 32) * 16777216 + e[3] * 65536 + e[2] * 256 + e[1]

\* Entry::from_u32((tag << 29) | (offset as u32))
TaggedWord(tag, offset) ==
    LET w == U32Bytes(offset) IN <<w[1], w[2], w[3], BitOr(tag * 32, w[4])>>

\* what a constructor leaves behind when its assert! fails: no Entry
Panicked == <<>>

EntryNull == TaggedWord(NULL_TAG, 0)
EntryFalse == TaggedWord(FALSE_TAG, 0)
EntryTrue == TaggedWord(TRUE_TAG, 0)
EntryBool(b) == IF b THEN EntryTrue ELSE EntryFalse

\* Entry::number without its assert!: offset as u32 is or-ed in as it is
EntryNumberUnchecked(offset) == TaggedWord(NUMBER_TAG, offset)

EntryNumber(offset) ==
    IF offset <= LEN_MASK THEN TaggedWord(NUMBER_TAG, offset) ELSE Panicked
EntryString(offset) ==
    IF offset <= LEN_MASK THEN TaggedWord(STRING_TAG, offset) ELSE Panicked
EntryArray(offset) ==
    IF offset <= LEN_MASK THEN TaggedWord(ARRAY_TAG, offset) ELSE Panicked
EntryObject(offset) ==
    IF offset <= LEN_MASK THEN TaggedWord(OBJECT_TAG, offset) ELSE Panicked

\* set_offset or-ing the offset into the word as it stands
SetOffsetKeepsOldBits(e, offset) ==
    IF offset <= LEN_MASK THEN [i \in 1..4 |-> BitOr(e[i], U32Bytes(offset)[i])]
    ELSE Panicked

\* Entry::set_offset
SetOffset(e, offset) ==
    IF offset <= LEN_MASK THEN TaggedWord(EntryTag(e), offset) ELSE Panicked

NUMBER_ZERO == 0
NUMBER_I8 == 1
NUMBER_I16 == 2
NUMBER_I32 == 4
NUMBER_I64 == 8
NUMBER_U64 == 24
NUMBER_F64 == 40

\* number_size(tag) == (tag & 0xF)
NumberSize(tag) == tag % 16

(***************************************************************************)
(* 64-bit numbers.  An i64 or u64 is its eight bytes (two's complement),   *)
(* an f64 its eight IEEE-754 bytes: the widths are kept, the arithmetic is *)
(* done on the bytes.                                                      *)
(***************************************************************************)

Zero8 == <<0, 0, 0, 0, 0, 0, 0, 0>>

\* v as i64, for a small integer v
I64(v) ==
    IF v >= 0 THEN U32Bytes(v) \o <<0, 0, 0, 0>>
    ELSE LET w == U32Bytes(-(v + 1))
         IN  <<255 - w[1], 255 - w[2], 255 - w[3], 255 - w[4], 255, 255, 255, 255>>

I64_MIN == <<0, 0, 0, 0, 0, 0, 0, 128>>
I64_MAX == <<255, 255, 255, 255, 255, 255, 255, 127>>
U64_MAX == <<255, 255, 255, 255, 255, 255, 255, 255>>

\* the byte that sign-extends byte b
SignExt(b) == IF b >= 128 THEN 255 ELSE 0

\* iN::try_from(v).is_ok() for the N = 8 * w bit signed type
FitsSigned(v, w) == \A i \in (w + 1)..8 : v[i] = SignExt(v[w])

\* f64::is_finite: the exponent field is not all ones
F64IsFinite(p) == (p[8] % 128) * 16 + p[7] \div 16 # 2047

\* the number record add_i64 appends: the narrowest signed kind that holds v
I64Record(v) ==
    IF v = Zero8 THEN <<NUMBER_ZERO>>
    ELSE IF FitsSigned(v, 1) THEN <<NUMBER_I8>> \o SubSeq(v, 1, 1)
    ELSE IF FitsSigned(v, 2) THEN <<NUMBER_I16>> \o SubSeq(v, 1, 2)
    ELSE IF FitsSigned(v, 4) THEN <<NUMBER_I32>> \o SubSeq(v, 1, 4)
    ELSE <<NUMBER_I64>> \o v

\* the number record add_u64 appends: the signed kinds up to i64::MAX, else u64
U64Record(v) == IF v[8] < 128 THEN I64Record(v) ELSE <<NUMBER_U64>> \o v

\* the number record add_f64 appends
F64Record(p) == <<NUMBER_F64>> \o p

(***************************************************************************)
(* Borrowed views: a ValueRef is [kind, data].  data is the number record  *)
(* of a Number, the bytes of a String, <<1>> or <<0>> for a Bool, and for  *)
(* an Array or Object the slice from its first element byte through its    *)
(* size word.  Entries inside a container hold offsets into that slice.    *)
(***************************************************************************)

None == [kind |-> "None", data |-> <<>>]

\* ValueRef::from_slice(data, entry)
FromSlice(data, entry) ==
    LET tag == EntryTag(entry)
        ptr == EntryOffset(entry)
    IN  IF tag = NULL_TAG THEN [kind |-> "Null", data |-> <<>>]
        ELSE IF tag = FALSE_TAG THEN [kind |-> "Bool", data |-> <<0>>]
        ELSE IF tag = TRUE_TAG THEN [kind |-> "Bool", data |-> <<1>>]
        ELSE IF tag = NUMBER_TAG
        THEN [kind |-> "Number",
              data |-> Slice(data, ptr, ptr + 1 + NumberSize(data[ptr + 1]))]
        ELSE IF tag = STRING_TAG
        THEN [kind |-> "String",
              data |-> Slice(data, ptr + 4, ptr + 4 + GetU32(data, ptr))]
        ELSE IF tag = ARRAY_TAG
        THEN [kind |-> "Array", data |-> Slice(data, ptr - GetU32(data, ptr - 4), ptr)]
        ELSE [kind |-> "Object", data |-> Slice(data, ptr - GetU32(data, ptr - 4), ptr)]

\* ValueRef::from_bytes: the root entry is the last four bytes
FromBytes(bytes) == FromSlice(bytes, Slice(bytes, Len(bytes) - 4, Len(bytes)))

\* ValueRef::as_slice: the bytes of the value without its entry
AsSlice(ref) ==
    IF ref.kind \in {"Null", "Bool"} THEN <<>>
    ELSE IF ref.kind = "String" THEN U32Bytes(Len(ref.data)) \o ref.data
    ELSE ref.data

\* ValueRef::capacity
Capacity(ref) == Len(AsSlice(ref))

\* ValueRef::make_entry(offset): the entry of the value once its bytes sit at offset
MakeEntry(ref, offset) ==
    IF ref.kind = "Null" THEN EntryNull
    ELSE IF ref.kind = "Bool" THEN EntryBool(ref.data = <<1>>)
    ELSE IF ref.kind = "Number" THEN EntryNumber(offset)
    ELSE IF ref.kind = "String" THEN EntryString(offset)
    ELSE IF ref.kind = "Array" THEN EntryArray(offset + Len(ref.data))
    ELSE EntryObject(offset + Len(ref.data))

\* ArrayRef::len / ObjectRef::len: the count word, eight bytes before the end
ContainerLen(ref) == GetU32(ref.data, Len(ref.data) - 8)

\* the i-th entry word of an array (0-based)
ArrayEntry(ref, i) ==
    LET at == Len(ref.data) - 8 - 4 * (ContainerLen(ref) - i)
    IN  Slice(ref.data, at, at + 4)

\* ArrayRef::get(index)
ArrayGet(ref, i) ==
    IF i >= ContainerLen(ref) THEN None ELSE FromSlice(ref.data, ArrayEntry(ref, i))

\* ArrayRef::iter, collected
ArrayElems(ref) == [i \in 1..ContainerLen(ref) |-> ArrayGet(ref, i - 1)]

\* the i-th (key entry, value entry) pair of an object (0-based)
ObjectEntry(ref, i, which) ==
    LET at == Len(ref.data) - 8 - 8 * (ContainerLen(ref) - i) + 4 * which
    IN  Slice(ref.data, at, at + 4)

\* the key and the value of the i-th pair, in the order the entries are stored
ObjectKeyAt(ref, i) == FromSlice(ref.data, ObjectEntry(ref, i, 0)).data
ObjectValueAt(ref, i) == FromSlice(ref.data, ObjectEntry(ref, i, 1))

\* ObjectRef::iter, collected: <<key, value>> pairs in stored order
ObjectPairs(ref) ==
    [i \in 1..ContainerLen(ref) |-> <<ObjectKeyAt(ref, i - 1), ObjectValueAt(ref, i - 1)>>]

\* ObjectRef::keys, collected
ObjectKeys(ref) == [i \in 1..ContainerLen(ref) |-> ObjectKeyAt(ref, i - 1)]

RECURSIVE BinarySearchNarrow(_, _, _, _)
\* a binary search that drops the pair just below the middle when it goes left
BinarySearchNarrow(ref, k, lo, hi) ==
    IF lo >= hi THEN -1
    ELSE LET mid == lo + (hi - lo) \div 2
             c == BytesCmp(ObjectKeyAt(ref, mid), k)
         IN  IF c = "Equal" THEN mid
             ELSE IF c = "Less" THEN BinarySearchNarrow(ref, k, mid + 1, hi)
             ELSE BinarySearchNarrow(ref, k, lo, mid - 1)

RECURSIVE BinarySearch(_, _, _, _)
\* slice::binary_search_by over the pairs lo..hi-1 (0-based): the index of key, or -1
BinarySearch(ref, k, lo, hi) ==
    IF lo >= hi THEN -1
    ELSE LET mid == lo + (hi - lo) \div 2
             c == BytesCmp(ObjectKeyAt(ref, mid), k)
         IN  IF c = "Equal" THEN mid
             ELSE IF c = "Less" THEN BinarySearch(ref, k, mid + 1, hi)
             ELSE BinarySearch(ref, k, lo, mid)

\* ObjectRef::get(key): binary search over the sorted key entries
ObjectGet(ref, k) ==
    LET i == BinarySearch(ref, k, 0, ContainerLen(ref))
    IN  IF i < 0 THEN None ELSE ObjectValueAt(ref, i)

\* an index: a usize (at) or a &str (key)
AtIndex(i) == [isKey |-> FALSE, at |-> i, key |-> <<>>]
KeyIndex(k) == [isKey |-> TRUE, at |-> 0, key |-> k]

\* Index::index_into: a usize indexes arrays, a &str indexes objects
IndexInto(index, ref) ==
    IF index.isKey
    THEN IF ref.kind = "Object" THEN ObjectGet(ref, index.key) ELSE None
    ELSE IF ref.kind = "Array" THEN ArrayGet(ref, index.at) ELSE None

(***************************************************************************)
(* Builder: the byte buffer, the stack of open scopes (kind, offset of the *)
(* first element byte, entries collected so far) and the entries written   *)
(* at the top level.  fault records a failed event: construction stops.    *)
(* log lists the events called, in order.                                  *)
(***************************************************************************)

\* Builder::with_capacity
NewBuilder ==
    [buffer |-> <<>>, scopes |-> <<>>, root |-> <<>>, fault |-> "none", log |-> <<>>]

Top(b) == b.scopes[Len(b.scopes)]

\* inside an object scope with an even number of events so far: a key is due
ExpectsKey(b) ==
    /\ b.scopes # <<>>
    /\ Top(b).kind = "object"
    /\ Len(Top(b).entries) % 2 = 0

\* Builder::offset: the buffer length relative to the innermost open scope
BuilderOffset(b) == Len(b.buffer) - (IF b.scopes = <<>> THEN 0 ELSE Top(b).start)

\* write an entry into the current scope
PushEntry(b, e) ==
    IF b.scopes = <<>> THEN [b EXCEPT !.root = Append(@, e)]
    ELSE [b EXCEPT !.scopes[Len(b.scopes)].entries = Append(@, e)]

\* append bytes at the current offset and write the entry that refers to them
PushRecord(b, bytes, e) == PushEntry([b EXCEPT !.buffer = @ \o bytes], e)

Fault(b, what) == [b EXCEPT !.fault = what]

\* the builder with one more event called on it
Called(b, event) == [b EXCEPT !.log = Append(@, event)]

AddNull(b) ==
    IF b.fault # "none" THEN b
    ELSE IF ExpectsKey(b) THEN Fault(Called(b, "add_null"), "protocol violation")
    ELSE PushEntry(Called(b, "add_null"), EntryNull)

AddBool(b, v) ==
    IF b.fault # "none" THEN b
    ELSE IF ExpectsKey(b) THEN Fault(Called(b, "add_bool"), "protocol violation")
    ELSE PushEntry(Called(b, "add_bool"), EntryBool(v))

AddI64(b, v) ==
    IF b.fault # "none" THEN b
    ELSE IF ExpectsKey(b) THEN Fault(Called(b, "add_i64"), "protocol violation")
    ELSE PushRecord(Called(b, "add_i64"), I64Record(v), EntryNumber(BuilderOffset(b)))

AddU64(b, v) ==
    IF b.fault # "none" THEN b
    ELSE IF ExpectsKey(b) THEN Fault(Called(b, "add_u64"), "protocol violation")
    ELSE PushRecord(Called(b, "add_u64"), U64Record(v), EntryNumber(BuilderOffset(b)))

AddF64(b, p) ==
    IF b.fault # "none" THEN b
    ELSE IF ExpectsKey(b) THEN Fault(Called(b, "add_f64"), "protocol violation")
    ELSE IF ~F64IsFinite(p) THEN Fault(Called(b, "add_f64"), "invalid number")
    ELSE PushRecord(Called(b, "add_f64"), F64Record(p), EntryNumber(BuilderOffset(b)))

\* add_string: a key or a value
AddString(b, str) ==
    IF b.fault # "none" THEN b
    ELSE PushRecord(Called(b, "add_string"), U32Bytes(Len(str)) \o str,
                    EntryString(BuilderOffset(b)))

\* add_value: splice the bytes of a foreign view, relocate its root entry
AddValue(b, ref) ==
    IF b.fault # "none" THEN b
    ELSE IF ExpectsKey(b) THEN Fault(Called(b, "add_value"), "protocol violation")
    ELSE PushRecord(Called(b, "add_value"), AsSlice(ref), MakeEntry(ref, BuilderOffset(b)))

BeginScope(b, kind) ==
    IF b.fault # "none" THEN b
    ELSE IF ExpectsKey(b) THEN Fault(Called(b, "begin_" \o kind), "protocol violation")
    ELSE [Called(b, "begin_" \o kind) EXCEPT !.scopes =
              Append(@, [kind |-> kind, start |-> Len(b.buffer), entries |-> <<>>])]

BeginArray(b) == BeginScope(b, "array")
BeginObject(b) == BeginScope(b, "object")

\* the scope popped, its trailer (entries, count, size) appended
CloseScope(b, entries, count) ==
    LET s == Top(b)
        body == b.buffer \o Concat(entries) \o U32Bytes(count)
    IN  [b EXCEPT !.scopes = SubSeq(@, 1, Len(@) - 1),
                  !.buffer = body \o U32Bytes(Len(body) - s.start + 4)]

EndArray(b) ==
    IF b.fault # "none" THEN b
    ELSE IF b.scopes = <<>> \/ Top(b).kind # "array"
    THEN Fault(Called(b, "end_array"), "protocol violation")
    ELSE LET closed == CloseScope(Called(b, "end_array"), Top(b).entries, Len(Top(b).entries))
         IN  PushEntry(closed, EntryArray(BuilderOffset(closed)))

\* the key string a key entry of the open scope refers to
ScopeKey(b, e) == FromSlice(Slice(b.buffer, Top(b).start, Len(b.buffer)), e).data

\* the (key, value) entry pairs of the open object scope, in insertion order
ScopePairs(b) ==
    [i \in 1..(Len(Top(b).entries) \div 2) |->
        [k |-> ScopeKey(b, Top(b).entries[2 * i - 1]),
         ke |-> Top(b).entries[2 * i - 1],
         ve |-> Top(b).entries[2 * i]]]

\* insert p after every pair whose key is not greater: the sort is stable
InsertPair(sorted, p) ==
    LET n == Cardinality({i \in 1..Len(sorted) : BytesCmp(sorted[i].k, p.k) # "Greater"})
    IN  SubSeq(sorted, 1, n) \o <<p>> \o SubSeq(sorted, n + 1, Len(sorted))

\* end_object leaving the pairs in insertion order
SortPairsSkipped(ps) == ps

RECURSIVE SortPairs(_)
\* step 1 of end_object: sort by the bytes of the key
SortPairs(ps) ==
    IF ps = <<>> THEN <<>>
    ELSE InsertPair(SortPairs(SubSeq(ps, 1, Len(ps) - 1)), ps[Len(ps)])

RECURSIVE DedupPairsFirst(_)
\* end_object keeping, of sorted pairs that share a key, the earlier insertion
DedupPairsFirst(ps) ==
    IF Len(ps) <= 1 THEN ps
    ELSE IF ps[1].k = ps[2].k THEN DedupPairsFirst(<<ps[1]>> \o Tail(Tail(ps)))
    ELSE <<ps[1]>> \o DedupPairsFirst(Tail(ps))

RECURSIVE DedupPairs(_)
\* step 2 of end_object: of sorted pairs that share a key the later insertion wins
DedupPairs(ps) ==
    IF Len(ps) <= 1 THEN ps
    ELSE IF ps[1].k = ps[2].k THEN DedupPairs(Tail(ps))
    ELSE <<ps[1]>> \o DedupPairs(Tail(ps))

RECURSIVE PairEntries(_)
\* step 3 of end_object: key-entry, value-entry, key-entry, value-entry, ...
PairEntries(ps) ==
    IF ps = <<>> THEN <<>> ELSE <<ps[1].ke, ps[1].ve>> \o PairEntries(Tail(ps))

EndObject(b) ==
    IF b.fault # "none" THEN b
    ELSE IF b.scopes = <<>> \/ Top(b).kind # "object"
    THEN Fault(Called(b, "end_object"), "protocol violation")
    ELSE IF Len(Top(b).entries) % 2 # 0
    THEN Fault(Called(b, "end_object"), "protocol violation")
    ELSE LET ps == DedupPairs(SortPairs(ScopePairs(b)))
             closed == CloseScope(Called(b, "end_object"), PairEntries(ps), Len(ps))
         IN  PushEntry(closed, EntryObject(BuilderOffset(closed)))

\* finish: no open scope, exactly one root entry; else the call panics
FinishOk(b) == b.fault = "none" /\ b.scopes = <<>> /\ Len(b.root) = 1

\* the buffer finish returns: the bytes written, then the root entry
Finish(b) == b.buffer \o b.root[1]

(***************************************************************************)
(* JSON text and serde_json's Deserializer, driving the Visitor of         *)
(* serde.rs.  A text is a sequence of one-character strings over Alphabet; *)
(* positions are 1-based indices of the next character to read.  Numbers   *)
(* in a text are short: an integer part, and at most a fraction and an     *)
(* unsigned exponent that leave a value F64FromSixteenths represents.      *)
(***************************************************************************)

Digits == {"0", "1", "2", "3", "4", "5", "6", "7", "8", "9"}

Alphabet ==
    Digits \cup {"a", "b", "e", "f", "l", "n", "r", "s", "t", "u",
                 " ", "-", ".", ",", ":", "\"", "[", "]", "{", "}"}

\* the UTF-8 byte of a character of Alphabet
CharByte(c) ==
    CASE c = "a" -> 97 [] c = "b" -> 98 [] c = "e" -> 101 [] c = "f" -> 102
      [] c = "l" -> 108 [] c = "n" -> 110 [] c = "r" -> 114 [] c = "s" -> 115
      [] c = "t" -> 116 [] c = "u" -> 117 [] c = " " -> 32 [] c = "-" -> 45
      [] c = "." -> 46 [] c = "," -> 44 [] c = ":" -> 58 [] c = "\"" -> 34
      [] c = "[" -> 91 [] c = "]" -> 93 [] c = "{" -> 123 [] c = "}" -> 125
      [] c = "0" -> 48 [] c = "1" -> 49 [] c = "2" -> 50 [] c = "3" -> 51
      [] c = "4" -> 52 [] c = "5" -> 53 [] c = "6" -> 54 [] c = "7" -> 55
      [] c = "8" -> 56 [] c = "9" -> 57

DigitVal(c) == CharByte(c) - 48

RECURSIVE Log2(_)
\* floor(log2(n)) for n >= 1
Log2(n) == IF n <= 1 THEN 0 ELSE 1 + Log2(n \div 2)

\* the f64 whose value is x / 16, for |x| of at most five significant bits
F64FromSixteenths(neg, x) ==
    IF x = 0 THEN <<0, 0, 0, 0, 0, 0, 0, IF neg THEN 128 ELSE 0>>
    ELSE LET k == Log2(x)
             e == k - 4 + 1023
             m == (x * 16) \div Pow2(k) - 16
         IN  <<0, 0, 0, 0, 0, 0, (e % 16) * 16 + m,
               (IF neg THEN 128 ELSE 0) + e \div 16>>

\* the value of a finite f64 in sixteenths, for an f64 F64FromSixteenths makes
F64Sixteenths(p) ==
    LET e == (p[8] % 128) * 16 + p[7] \div 16
        m == p[7] % 16
        mag == IF e = 0 THEN 0
               ELSE IF e >= 1023 THEN (16 + m) * Pow2(e - 1023)
               ELSE (16 + m) \div Pow2(1023 - e)
    IN  IF p[8] >= 128 THEN -mag ELSE mag

RECURSIVE SkipWs(_, _)
\* Deserializer::parse_whitespace
SkipWs(t, p) == IF p <= Len(t) /\ t[p] = " " THEN SkipWs(t, p + 1) ELSE p

\* whether the characters of word stand at position p
Matches(t, p, word) ==
    /\ p + Len(word) - 1 <= Len(t)
    /\ SubSeq(t, p, p + Len(word) - 1) = word

RECURSIVE ScanDigits(_, _, _, _)
\* the run of digits at p: [val, n (digits read), pos]
ScanDigits(t, p, acc, n) ==
    IF p <= Len(t) /\ t[p] \in Digits
    THEN ScanDigits(t, p + 1, acc * 10 + DigitVal(t[p]), n + 1)
    ELSE [val |-> acc, n |-> n, pos |-> p]

RECURSIVE Pow10(_)
Pow10(n) == IF n = 0 THEN 1 ELSE 10 * Pow10(n - 1)

\* Deserializer::parse_integer and parse_number, parse_decimal, parse_exponent:
\* [ok, kind ("u64" | "i64" | "f64"), v (the eight bytes), pos]
ScanNumber(t, p, positive) ==
    LET bad == [ok |-> FALSE, kind |-> "", v |-> Zero8, pos |-> p]
        int == ScanDigits(t, p, 0, 0)
        frac == ScanDigits(t, int.pos + 1, 0, 0)
        hasFrac == int.pos <= Len(t) /\ t[int.pos] = "."
        q == IF hasFrac THEN frac.pos ELSE int.pos
        hasExp == q <= Len(t) /\ t[q] = "e"
        exp == ScanDigits(t, q + 1, 0, 0)
        \* value * 16 = int.val * 16 + frac.val * 16 / 10^frac.n, times 10^exp.val
        x16 == (int.val * 16 + (IF hasFrac THEN (frac.val * 16) \div Pow10(frac.n) ELSE 0))
                   * (IF hasExp THEN Pow10(exp.val) ELSE 1)
    IN  IF int.n = 0 THEN bad
        ELSE IF t[p] = "0" /\ int.n > 1 THEN bad
        ELSE IF hasFrac /\ frac.n = 0 THEN bad
        ELSE IF hasExp /\ exp.n = 0 THEN bad
        ELSE IF hasFrac \/ hasExp
        THEN [ok |-> TRUE, kind |-> "f64", v |-> F64FromSixteenths(~positive, x16),
              pos |-> IF hasExp THEN exp.pos ELSE q]
        ELSE IF positive
        THEN [ok |-> TRUE, kind |-> "u64", v |-> I64(int.val), pos |-> int.pos]
        ELSE IF int.val = 0
        THEN [ok |-> TRUE, kind |-> "f64", v |-> F64FromSixteenths(TRUE, 0),
              pos |-> int.pos]
        ELSE [ok |-> TRUE, kind |-> "i64", v |-> I64(-int.val), pos |-> int.pos]

RECURSIVE ScanString(_, _, _)
\* Deserializer::parse_str from the character after the opening quote:
\* [ok, str (the bytes), pos]
ScanString(t, p, acc) ==
    IF p > Len(t) THEN [ok |-> FALSE, str |-> acc, pos |-> p]
    ELSE IF t[p] = "\"" THEN [ok |-> TRUE, str |-> acc, pos |-> p + 1]
    ELSE ScanString(t, p + 1, Append(acc, CharByte(t[p])))

\* the result of a failed step: the builder as the error left it
Failed(b, p) == [ok |-> FALSE, b |-> b, pos |-> p]
Parsed(b, p) == [ok |-> TRUE, b |-> b, pos |-> p]

RECURSIVE Deserialize(_, _, _)
RECURSIVE NextElements(_, _, _, _)
RECURSIVE NextEntries(_, _, _, _)

\* visit_seq without its end_array
VisitSeqUnclosed(b, t, p) ==
    LET r == NextElements(BeginArray(b), t, p, TRUE)
    IN  IF r.ok THEN Parsed(r.b, r.pos + 1) ELSE r

\* visit_seq: begin_array, next_element_seed until None, end_array; then
\* serde_json's end_seq eats the closing bracket
VisitSeq(b, t, p) ==
    LET r == NextElements(BeginArray(b), t, p, TRUE)
    IN  IF r.ok THEN Parsed(EndArray(r.b), r.pos + 1) ELSE r

\* visit_map: begin_object, next_key_seed / next_value_seed until None,
\* end_object; then serde_json's end_map eats the closing brace
VisitMap(b, t, p) ==
    LET r == NextEntries(BeginObject(b), t, p, TRUE)
    IN  IF r.ok THEN Parsed(EndObject(r.b), r.pos + 1) ELSE r

\* <&mut Builder as DeserializeSeed>::deserialize: deserialize_any calls the
\* visit_* method of the value that starts at p
Deserialize(b, t, p) ==
    LET q == SkipWs(t, p)
    IN  IF q > Len(t) THEN Failed(b, q)
        ELSE IF t[q] = "n"
        THEN IF Matches(t, q, <<"n", "u", "l", "l">>)
             THEN Parsed(AddNull(b), q + 4) ELSE Failed(b, q)
        ELSE IF t[q] = "t"
        THEN IF Matches(t, q, <<"t", "r", "u", "e">>)
             THEN Parsed(AddBool(b, TRUE), q + 4) ELSE Failed(b, q)
        ELSE IF t[q] = "f"
        THEN IF Matches(t, q, <<"f", "a", "l", "s", "e">>)
             THEN Parsed(AddBool(b, FALSE), q + 5) ELSE Failed(b, q)
        ELSE IF t[q] = "-" \/ t[q] \in Digits
        THEN LET n == IF t[q] = "-" THEN ScanNumber(t, q + 1, FALSE)
                      ELSE ScanNumber(t, q, TRUE)
             IN  IF ~n.ok THEN Failed(b, n.pos)
                 ELSE IF n.kind = "u64" THEN Parsed(AddU64(b, n.v), n.pos)
                 ELSE IF n.kind = "i64" THEN Parsed(AddI64(b, n.v), n.pos)
                 ELSE Parsed(AddF64(b, n.v), n.pos)
        ELSE IF t[q] = "\""
        THEN LET str == ScanString(t, q + 1, <<>>)
             IN  IF str.ok THEN Parsed(AddString(b, str.str), str.pos)
                 ELSE Failed(b, str.pos)
        ELSE IF t[q] = "[" THEN VisitSeq(b, t, q + 1)
        ELSE IF t[q] = "{" THEN VisitMap(b, t, q + 1)
        ELSE Failed(b, q)

\* SeqAccess::next_element_seed, repeated: ok with pos at the closing bracket
NextElements(b, t, p, first) ==
    LET q == SkipWs(t, p)
    IN  IF q > Len(t) THEN Failed(b, q)
        ELSE IF t[q] = "]" THEN Parsed(b, q)
        ELSE IF ~first /\ t[q] # "," THEN Failed(b, q)
        ELSE LET at == IF first THEN q ELSE SkipWs(t, q + 1)
             IN  IF at > Len(t) \/ t[at] = "]" THEN Failed(b, at)
                 ELSE LET r == Deserialize(b, t, at)
                      IN  IF r.ok THEN NextElements(r.b, t, r.pos, FALSE) ELSE r

\* MapAccess::next_key_seed and next_value_seed, repeated: ok with pos at the
\* closing brace
NextEntries(b, t, p, first) ==
    LET q == SkipWs(t, p)
    IN  IF q > Len(t) THEN Failed(b, q)
        ELSE IF t[q] = "}" THEN Parsed(b, q)
        ELSE IF ~first /\ t[q] # "," THEN Failed(b, q)
        ELSE LET at == IF first THEN q ELSE SkipWs(t, q + 1)
             IN  IF at > Len(t) \/ t[at] # "\"" THEN Failed(b, at)
                 ELSE LET k == ScanString(t, at + 1, <<>>)
                          colon == SkipWs(t, k.pos)
                      IN  IF ~k.ok THEN Failed(b, k.pos)
                          ELSE IF colon > Len(t) \/ t[colon] # ":"
                          THEN Failed(AddString(b, k.str), colon)
                          ELSE LET r == Deserialize(AddString(b, k.str), t, colon + 1)
                               IN  IF r.ok THEN NextEntries(r.b, t, r.pos, FALSE)
                                   ELSE r

(***************************************************************************)
(* Comparison of views: ValueRef's PartialEq and Ord.                      *)
(***************************************************************************)

\* an integer record as nine bytes of two's complement, sign byte last
IntBytes9(rec) ==
    LET w == NumberSize(rec[1])
        ext == IF w = 0 \/ rec[1] = NUMBER_U64 THEN 0 ELSE SignExt(rec[1 + w])
    IN  SubSeq(rec, 2, 1 + w) \o [i \in 1..(9 - w) |-> ext]

Rev(bytes) == [i \in 1..Len(bytes) |-> bytes[Len(bytes) + 1 - i]]

\* two integers by value: the sign, then the bytes from the most significant
Int9Cmp(a, b) ==
    IF a[9] # b[9] THEN IF a[9] > b[9] THEN "Less" ELSE "Greater"
    ELSE BytesCmp(Rev(a), Rev(b))

\* an integer of at most three bytes as a number
Fits3(v) == \A i \in 4..9 : v[i] = SignExt(v[3])
SmallInt(v) ==
    IF v[9] = 0 THEN v[1] + 256 * v[2] + 65536 * v[3]
    ELSE -(1 + (255 - v[1]) + 256 * (255 - v[2]) + 65536 * (255 - v[3]))

\* an integer against a float by value; a float of the model is far smaller
\* than any integer of more than three bytes, whose sign then decides
IntF64Cmp(v, p) ==
    IF Fits3(v) THEN IntCmp(SmallInt(v) * 16, F64Sixteenths(p))
    ELSE IF v[9] = 0 THEN "Greater" ELSE "Less"

\* NumberRef::cmp: by mathematical value, whatever the stored kinds
NumCmp(a, b) ==
    IF a[1] # NUMBER_F64 /\ b[1] # NUMBER_F64 THEN Int9Cmp(IntBytes9(a), IntBytes9(b))
    ELSE IF a[1] = NUMBER_F64 /\ b[1] = NUMBER_F64
    THEN IntCmp(F64Sixteenths(Tail(a)), F64Sixteenths(Tail(b)))
    ELSE IF a[1] = NUMBER_F64 THEN Reverse(IntF64Cmp(IntBytes9(b), Tail(a)))
    ELSE IntF64Cmp(IntBytes9(a), Tail(b))

\* NumberRef::eq: the same mathematical value
NumEq(a, b) ==
    IF a[1] # NUMBER_F64 /\ b[1] # NUMBER_F64 THEN IntBytes9(a) = IntBytes9(b)
    ELSE IF a[1] = NUMBER_F64 /\ b[1] = NUMBER_F64
    THEN F64Sixteenths(Tail(a)) = F64Sixteenths(Tail(b))
    ELSE LET i == IF a[1] = NUMBER_F64 THEN IntBytes9(b) ELSE IntBytes9(a)
             f == IF a[1] = NUMBER_F64 THEN Tail(a) ELSE Tail(b)
         IN  Fits3(i) /\ SmallInt(i) * 16 = F64Sixteenths(f)

\* the rank of a kind class: Object > Array > Boolean > Number > String > Null
KindRank(kind) ==
    CASE kind = "Null" -> 0 [] kind = "String" -> 1 [] kind = "Number" -> 2
      [] kind = "Bool" -> 3 [] kind = "Array" -> 4 [] kind = "Object" -> 5

RECURSIVE RefCmp(_, _)
RECURSIVE ElemsCmp(_, _, _)
RECURSIVE PairsCmp(_, _, _)

\* arrays of equal length from element i on: element-1, element-2, ...
ElemsCmp(a, b, i) ==
    IF i >= ContainerLen(a) THEN "Equal"
    ELSE LET c == RefCmp(ArrayGet(a, i), ArrayGet(b, i))
         IN  IF c # "Equal" THEN c ELSE ElemsCmp(a, b, i + 1)

\* objects of equal size from pair i on: key-1, value-1, key-2, ...
PairsCmp(a, b, i) ==
    IF i >= ContainerLen(a) THEN "Equal"
    ELSE LET ck == BytesCmp(ObjectKeyAt(a, i), ObjectKeyAt(b, i))
             cv == RefCmp(ObjectValueAt(a, i), ObjectValueAt(b, i))
         IN  IF ck # "Equal" THEN ck
             ELSE IF cv # "Equal" THEN cv
             ELSE PairsCmp(a, b, i + 1)

\* <ValueRef as Ord>::cmp
RefCmp(a, b) ==
    IF a.kind # b.kind THEN IntCmp(KindRank(a.kind), KindRank(b.kind))
    ELSE IF a.kind = "Null" THEN "Equal"
    ELSE IF a.kind = "Bool" THEN IntCmp(a.data[1], b.data[1])
    ELSE IF a.kind = "Number" THEN NumCmp(a.data, b.data)
    ELSE IF a.kind = "String" THEN BytesCmp(a.data, b.data)
    ELSE IF ContainerLen(a) # ContainerLen(b)
    THEN IntCmp(ContainerLen(a), ContainerLen(b))
    ELSE IF a.kind = "Array" THEN ElemsCmp(a, b, 0)
    ELSE PairsCmp(a, b, 0)

RECURSIVE RefEq(_, _)
\* <ValueRef as PartialEq>::eq: the same kind and logically equal contents
RefEq(a, b) ==
    /\ a.kind = b.kind
    /\ IF a.kind = "Null" THEN TRUE
       ELSE IF a.kind \in {"Bool", "String"} THEN a.data = b.data
       ELSE IF a.kind = "Number" THEN NumEq(a.data, b.data)
       ELSE /\ ContainerLen(a) = ContainerLen(b)
            /\ \A i \in 0..(ContainerLen(a) - 1) :
                  IF a.kind = "Array" THEN RefEq(ArrayGet(a, i), ArrayGet(b, i))
                  ELSE /\ ObjectKeyAt(a, i) = ObjectKeyAt(b, i)
                       /\ RefEq(ObjectValueAt(a, i), ObjectValueAt(b, i))

(***************************************************************************)
(* Owned Value (value.rs).  A constructor or mutator yields                *)
(* [outcome, buffer]: "ok" with the new buffer, "err" for a returned Err,  *)
(* "panic" when the call unwinds.                                          *)
(***************************************************************************)

Ok(bytes) == [outcome |-> "ok", buffer |-> bytes]
Err == [outcome |-> "err", buffer |-> <<>>]
Panic == [outcome |-> "panic", buffer |-> <<>>]

\* Value::from_builder: run the events, then Builder::finish
FromBuilder(b) == IF FinishOk(b) THEN Ok(Finish(b)) ELSE Panic

RECURSIVE AddValues(_, _)
\* for v in iter { b.add_value(v) }
AddValues(b, refs) ==
    IF refs = <<>> THEN b ELSE AddValues(AddValue(b, Head(refs)), Tail(refs))

\* Value::array
ValueArray(refs) == FromBuilder(EndArray(AddValues(BeginArray(NewBuilder), refs)))

RECURSIVE AddPairs(_, _)
\* for (k, v) in iter { b.add_string(k); b.add_value(v) }
AddPairs(b, pairs) ==
    IF pairs = <<>> THEN b
    ELSE AddPairs(AddValue(AddString(b, Head(pairs)[1]), Head(pairs)[2]), Tail(pairs))

\* Value::object
ValueObject(pairs) == FromBuilder(EndObject(AddPairs(BeginObject(NewBuilder), pairs)))

\* Value::from_text: deserialize into a builder, then finish
FromText(json) ==
    LET r == Deserialize(NewBuilder, json, 1)
    IN  IF ~r.ok THEN Err ELSE FromBuilder(r.b)

RECURSIVE AddSerdeValue(_, _)
RECURSIVE AddSerdeElems(_, _)
RECURSIVE AddSerdeEntries(_, _, _)

\* for v in a.iter() { self.add_serde_value(v) }
AddSerdeElems(b, vs) ==
    IF vs = <<>> THEN b ELSE AddSerdeElems(AddSerdeValue(b, Head(vs)), Tail(vs))

\* for (k, v) in o.iter() { self.add_string(k); self.add_serde_value(v) }
AddSerdeEntries(b, ks, vs) ==
    IF ks = <<>> THEN b
    ELSE AddSerdeEntries(AddSerdeValue(AddString(b, Head(ks)), Head(vs)), Tail(ks), Tail(vs))

\* Builder::add_serde_value.  A serde_json::Value is [k, v, c, ks]: k the
\* variant (a Number by the variant of its N: PosInt, NegInt, Float), v the
\* bytes of a scalar, c the elements of an Array or the values of an Object,
\* ks the keys of an Object
AddSerdeValue(b, value) ==
    IF value.k = "Null" THEN AddNull(b)
    ELSE IF value.k = "Bool" THEN AddBool(b, value.v = <<1>>)
    ELSE IF value.k = "PosInt" THEN AddU64(b, value.v)
    ELSE IF value.k = "NegInt" THEN AddI64(b, value.v)
    ELSE IF value.k = "Float" THEN AddF64(b, value.v)
    ELSE IF value.k = "String" THEN AddString(b, value.v)
    ELSE IF value.k = "Array" THEN EndArray(AddSerdeElems(BeginArray(b), value.c))
    ELSE EndObject(AddSerdeEntries(BeginObject(b), value.ks, value.c))

\* impl From<&serde_json::Value> for Value
FromSerde(value) == FromBuilder(AddSerdeValue(NewBuilder, value))

\* From<u64> passing v as i64 to add_i64
FromU64AsI64(v) == FromBuilder(AddI64(NewBuilder, v))

\* From<f64> writing the record whatever v is
FromF64Unchecked(p) == FromBuilder(PushRecord(NewBuilder, F64Record(p), EntryNumber(0)))

\* impl From<i64> for Value
FromI64(v) == FromBuilder(AddI64(NewBuilder, v))

\* impl From<u64> for Value
FromU64(v) == FromBuilder(AddU64(NewBuilder, v))

\* impl From<f64> for Value
FromF64(p) == FromBuilder(AddF64(NewBuilder, p))

\* Value::as_ref
AsRef(bytes) == FromBytes(bytes)

\* get with a usize taken as a position in an object too
ValueGetAnyContainer(bytes, index) ==
    IF ~index.isKey /\ AsRef(bytes).kind = "Object" /\ index.at < ContainerLen(AsRef(bytes))
    THEN ObjectValueAt(AsRef(bytes), index.at)
    ELSE IndexInto(index, AsRef(bytes))

\* Value::get
ValueGet(bytes, index) == IndexInto(index, AsRef(bytes))

\* array_push with the count word left as it was
PushedBufferStaleCount(bytes, value) ==
    LET len == ContainerLen(AsRef(bytes))
        offset == Len(bytes) - 4 - 4 - 4 - 4 * len
        truncated == SubSeq(bytes, 1, Len(bytes) - 12)
        spliced == SubSeq(truncated, 1, offset) \o AsSlice(value)
                       \o SubSeq(truncated, offset + 1, Len(truncated))
        entry == spliced \o MakeEntry(value, offset)
        count == entry \o U32Bytes(len)
        size == count \o U32Bytes(Len(count) + 4)
    IN  size \o EntryArray(Len(size))

\* array_push with the size word taken before the word itself is counted
PushedBufferShortSize(bytes, value) ==
    LET len == ContainerLen(AsRef(bytes))
        offset == Len(bytes) - 4 - 4 - 4 - 4 * len
        truncated == SubSeq(bytes, 1, Len(bytes) - 12)
        spliced == SubSeq(truncated, 1, offset) \o AsSlice(value)
                       \o SubSeq(truncated, offset + 1, Len(truncated))
        entry == spliced \o MakeEntry(value, offset)
        count == entry \o U32Bytes(len + 1)
        size == count \o U32Bytes(Len(count))
    IN  size \o EntryArray(Len(size))

\* the body of Value::array_push on an array of len elements: drop the
\* trailing (len, size, entry), splice the value in after the elements, push
\* its entry, then (len + 1, size, entry)
PushedBuffer(bytes, value) ==
    LET len == ContainerLen(AsRef(bytes))
        offset == Len(bytes) - 4 - 4 - 4 - 4 * len
        truncated == SubSeq(bytes, 1, Len(bytes) - 12)
        spliced == SubSeq(truncated, 1, offset) \o AsSlice(value)
                       \o SubSeq(truncated, offset + 1, Len(truncated))
        entry == spliced \o MakeEntry(value, offset)
        count == entry \o U32Bytes(len + 1)
        size == count \o U32Bytes(Len(count) + 4)
    IN  size \o EntryArray(Len(size))

\* array_push returning an error for a root that is not an array
ArrayPushErr(bytes, value) ==
    IF AsRef(bytes).kind # "Array" THEN Err ELSE Ok(PushedBuffer(bytes, value))

\* Value::array_push: self.as_array().expect("not array"), then the body
ArrayPush(bytes, value) ==
    IF AsRef(bytes).kind # "Array" THEN Panic ELSE Ok(PushedBuffer(bytes, value))

\* Value::object_insert: todo!()
ObjectInsert(bytes, k, value) == Panic

\* the variants of serde_json::Value
JNull == [k |-> "Null", v |-> <<>>, c |-> <<>>, ks |-> <<>>]
JBool(b) == [k |-> "Bool", v |-> IF b THEN <<1>> ELSE <<0>>, c |-> <<>>, ks |-> <<>>]
JPos(v) == [k |-> "PosInt", v |-> v, c |-> <<>>, ks |-> <<>>]
JNeg(v) == [k |-> "NegInt", v |-> v, c |-> <<>>, ks |-> <<>>]
JFloat(p) == [k |-> "Float", v |-> p, c |-> <<>>, ks |-> <<>>]
JStr(str) == [k |-> "String", v |-> str, c |-> <<>>, ks |-> <<>>]
JArr(elems) == [k |-> "Array", v |-> <<>>, c |-> elems, ks |-> <<>>]
JObj(keys, vals) == [k |-> "Object", v |-> <<>>, c |-> vals, ks |-> keys]

\* NumberRef::to_number: a serde_json::Number, PosInt, NegInt or Float
NumberToSerde(rec) ==
    IF rec[1] = NUMBER_F64 THEN JFloat(Tail(rec))
    ELSE LET v == IntBytes9(rec)
         IN  IF v[9] = 0 THEN JPos(SubSeq(v, 1, 8)) ELSE JNeg(SubSeq(v, 1, 8))

RECURSIVE ToSerde(_)
\* impl From<ValueRef> for serde_json::Value: the logical value a view shows
ToSerde(ref) ==
    IF ref.kind = "Null" THEN JNull
    ELSE IF ref.kind = "Bool" THEN JBool(ref.data = <<1>>)
    ELSE IF ref.kind = "Number" THEN NumberToSerde(ref.data)
    ELSE IF ref.kind = "String" THEN JStr(ref.data)
    ELSE IF ref.kind = "Array"
    THEN JArr([i \in 1..ContainerLen(ref) |-> ToSerde(ArrayGet(ref, i - 1))])
    ELSE JObj(ObjectKeys(ref),
              [i \in 1..ContainerLen(ref) |-> ToSerde(ObjectValueAt(ref, i - 1))])

\* impl From<Value> for serde_json::Value
ValueToSerde(bytes) == ToSerde(AsRef(bytes))

\* eq as the derived comparison of the buffers would give it
ValueEqBytes(a, b) == a = b

\* eq as the comparison of the serde_json values would give it
ValueEqSerde(a, b) == ValueToSerde(a) = ValueToSerde(b)

\* <Value as PartialEq>::eq
ValueEq(a, b) == RefEq(AsRef(a), AsRef(b))

RECURSIVE LexCmp(_, _, _)
\* two arrays as slices compare: element by element, then the shorter first
LexCmp(a, b, i) ==
    IF i >= ContainerLen(a) \/ i >= ContainerLen(b)
    THEN IntCmp(ContainerLen(a), ContainerLen(b))
    ELSE LET c == RefCmp(ArrayGet(a, i), ArrayGet(b, i))
         IN  IF c # "Equal" THEN c ELSE LexCmp(a, b, i + 1)

\* cmp with the arguments the other way round
ValueCmpSwapped(a, b) == RefCmp(AsRef(b), AsRef(a))

\* cmp with arrays compared as slices
ValueCmpLexicographic(a, b) ==
    IF AsRef(a).kind = "Array" /\ AsRef(b).kind = "Array"
    THEN LexCmp(AsRef(a), AsRef(b), 0)
    ELSE RefCmp(AsRef(a), AsRef(b))

\* <Value as Ord>::cmp
ValueCmp(a, b) == RefCmp(AsRef(a), AsRef(b))

(***************************************************************************)
(* The inputs the operations are called with.                              *)
(***************************************************************************)

\* the longest array an input holds
MaxLen == 2
\* the most (key, value) pairs an input gives an object
MaxPairs == 3
\* the number of mutator calls (array_push, object_insert) in one run
MaxCalls == 3

KeyA == <<97>>
KeyB == <<98>>
Keys == {KeyA, KeyB, <<97, 98>>}

F64One == F64FromSixteenths(FALSE, 16)
F64OneHalf == F64FromSixteenths(FALSE, 24)
F64NaN == <<0, 0, 0, 0, 0, 0, 248, 127>>
F64Inf == <<0, 0, 0, 0, 0, 0, 240, 127>>
F64NegInf == <<0, 0, 0, 0, 0, 0, 240, 255>>

\* the scalars that stand inside generated containers
ElemDocs == {JNull, JPos(I64(1)), JFloat(F64One), JStr(KeyA)}

\* further scalars: every number kind, both booleans, the empty string
ScalarDocs ==
    ElemDocs \cup
    {JBool(TRUE), JBool(FALSE), JPos(Zero8), JPos(I64(2)), JNeg(I64(-1)),
     JFloat(F64OneHalf), JStr(<<>>), JStr(<<97, 98>>), JPos(I64(300)),
     JPos(I64(70000)), JNeg(I64(-70000)), JPos(I64_MAX), JPos(U64_MAX), JNeg(I64_MIN)}

\* arrays of up to MaxLen scalars
ArrayDocs == UNION {{JArr(es) : es \in [1..n -> ElemDocs]} : n \in 0..MaxLen}

\* the values of generated objects: two that differ
MemberDocs == {JPos(I64(1)), JStr(KeyA)}

\* objects as written: up to MaxPairs pairs in any order, keys may repeat
RawObjectDocs ==
    UNION {{JObj(ks, vs) : ks \in [1..n -> Keys], vs \in [1..n -> MemberDocs]} :
              n \in 0..MaxPairs}

NoRepeat(ks) == \A i, j \in 1..Len(ks) : ks[i] = ks[j] => i = j

\* objects a serde_json::Map can hold: no key twice (in either iteration order
\* the crate's features give: sorted, or as inserted)
MapDocs == {d \in RawObjectDocs : NoRepeat(d.ks)}

\* a few containers to nest
InnerDocs ==
    {JArr(<<>>), JArr(<<JPos(I64(1)), JNull>>), JObj(<<>>, <<>>),
     JObj(<<KeyB, KeyA>>, <<JPos(I64(1)), JStr(KeyA)>>),
     JObj(<<KeyB, KeyA, KeyB>>, <<JNull, JPos(I64(1)), JFloat(F64One)>>)}

\* containers of containers, objects again as written
NestedDocs ==
    {JArr(<<x, y>>) : x \in InnerDocs, y \in {JArr(<<>>), JObj(<<KeyA>>, <<JNull>>)}} \cup
    {JObj(<<k1, k2>>, <<x, JPos(I64(1))>>) : k1 \in {KeyA, KeyB}, k2 \in {KeyA, KeyB},
                                              x \in InnerDocs} \cup
    {JArr(<<JObj(<<KeyB, KeyA>>, <<x, x>>)>>) : x \in InnerDocs}

\* what From<&serde_json::Value> is called with
SerdeDocs ==
    ScalarDocs \cup ArrayDocs \cup MapDocs \cup {d \in NestedDocs : NoRepeat(d.ks)}

\* the Values whose views are passed to array_push and Value::array
ArgDocs ==
    {JNull, JPos(I64(2)), JStr(<<97, 98>>), JArr(<<JPos(I64(1)), JNull>>),
     JObj(<<KeyA, KeyB>>, <<JStr(KeyA), JArr(<<>>)>>)}
ArgValues == {FromSerde(d).buffer : d \in ArgDocs}

\* the Values whose views are passed to object_insert and Value::object
MemberValues ==
    {FromSerde(d).buffer : d \in {JPos(I64(2)), JObj(<<KeyB>>, <<JBool(TRUE)>>)}}

\* what Value::object and Value::array are called with
PairLists ==
    UNION {{[i \in 1..n |-> <<ks[i], vs[i]>>] :
               ks \in [1..n -> Keys], vs \in [1..n -> MemberValues]} : n \in 0..MaxPairs}
RefLists == UNION {[1..n -> ArgValues \ {FromSerde(JNull).buffer}] : n \in 0..MaxLen}

RECURSIVE RenderNat(_)
\* a natural number in decimal
RenderNat(n) ==
    LET d == CHOOSE c \in Digits : DigitVal(c) = n % 10
    IN  IF n < 10 THEN <<d>> ELSE RenderNat(n \div 10) \o <<d>>

\* a string of the letters of Alphabet between quotes
RenderStr(str) ==
    <<"\"">> \o [i \in 1..Len(str) |-> CHOOSE c \in Alphabet : CharByte(c) = str[i]]
        \o <<"\"">>

RECURSIVE Render(_)
RECURSIVE RenderItems(_, _, _)

\* the items of an array (ks = <<>>) or the members of an object, comma separated
RenderItems(ks, vs, i) ==
    IF i > Len(vs) THEN <<>>
    ELSE (IF i > 1 THEN <<",">> ELSE <<>>)
         \o (IF ks = <<>> THEN <<>> ELSE RenderStr(ks[i]) \o <<":">>)
         \o Render(vs[i]) \o RenderItems(ks, vs, i + 1)

\* the JSON text of a document whose numbers are small
Render(d) ==
    IF d.k = "Null" THEN <<"n", "u", "l", "l">>
    ELSE IF d.k = "Bool"
    THEN IF d.v = <<1>> THEN <<"t", "r", "u", "e">> ELSE <<"f", "a", "l", "s", "e">>
    ELSE IF d.k = "PosInt" THEN RenderNat(SmallInt(d.v \o <<0>>))
    ELSE IF d.k = "NegInt" THEN <<"-">> \o RenderNat(-SmallInt(d.v \o <<255>>))
    ELSE IF d.k = "Float"
    THEN LET x == F64Sixteenths(d.v)
         IN  RenderNat(x \div 16) \o <<".">> \o RenderNat(((x % 16) * 10) \div 16)
    ELSE IF d.k = "String" THEN RenderStr(d.v)
    ELSE IF d.k = "Array" THEN <<"[">> \o RenderItems(<<>>, d.c, 1) \o <<"]">>
    ELSE <<"{">> \o RenderItems(d.ks, d.c, 1) \o <<"}">>

\* the documents given as text
TextDocs ==
    {JNull, JBool(TRUE), JBool(FALSE), JPos(Zero8), JPos(I64(1)), JPos(I64(12)),
     JNeg(I64(-1)), JFloat(F64One), JFloat(F64OneHalf), JStr(<<>>), JStr(<<97, 98>>)}
    \cup ArrayDocs \cup RawObjectDocs \cup NestedDocs

\* what may follow a document in a text
Trailers ==
    {<<>>, <<" ">>, <<"f", "2">>, <<"s">>, <<",", " ", "f", "a", "l", "s", "e">>,
     <<" ", "1">>, <<"]">>, <<"}">>}

\* the documents that are also given with a trailer, and cut short
ShortDocs == InnerDocs \cup (TextDocs \ (ArrayDocs \cup RawObjectDocs \cup NestedDocs))

\* texts: every document; the short ones also after a space and before a
\* trailer, and cut short at every length
Texts ==
    {Render(d) : d \in TextDocs}
    \cup {lead \o Render(d) \o trail :
             lead \in {<<>>, <<" ">>}, d \in ShortDocs, trail \in Trailers}
    \cup UNION {{SubSeq(Render(d), 1, n) : n \in 0..(Len(Render(d)) - 1)} : d \in ShortDocs}

\* the i64 passed to From<i64>: zero, and both sides of the limits of i8, i16,
\* i32 and i64
I64Inputs ==
    {I64(v) : v \in {0, 1, -1, 127, 128, -128, -129, 32767, 32768, -32768, -32769,
                     2147483647, -2147483647 - 1}}
    \cup {<<0, 0, 0, 128, 0, 0, 0, 0>>, <<255, 255, 255, 127, 255, 255, 255, 255>>,
          I64_MAX, I64_MIN}

\* the u64 passed to From<u64>: the same limits, and both sides of i64::MAX
U64Inputs ==
    {I64(v) : v \in {0, 1, 127, 128, 255, 256, 32767, 32768, 65535, 65536, 2147483647}}
    \cup {<<0, 0, 0, 128, 0, 0, 0, 0>>, <<255, 255, 255, 255, 0, 0, 0, 0>>,
          <<0, 0, 0, 0, 1, 0, 0, 0>>, I64_MAX, I64_MIN, <<1, 0, 0, 0, 0, 0, 0, 128>>,
          U64_MAX}

\* the f64 passed to From<f64>: finite ones, f64::MAX and the smallest
\* subnormal among them, the infinities and NaNs of either sign and payload
F64Inputs ==
    {F64One, F64OneHalf, Zero8, F64FromSixteenths(TRUE, 0), F64FromSixteenths(TRUE, 24),
     <<255, 255, 255, 255, 255, 255, 239, 127>>, <<255, 255, 255, 255, 255, 255, 239, 255>>,
     <<1, 0, 0, 0, 0, 0, 0, 0>>,
     F64NaN, F64Inf, F64NegInf, <<0, 0, 0, 0, 0, 0, 248, 255>>, <<1, 0, 0, 0, 0, 0, 240, 127>>,
     <<255, 255, 255, 255, 255, 255, 255, 127>>}

(***************************************************************************)
(* The program: it holds one Value, Value::null() to begin with, builds    *)
(* one with a constructor and then calls the mutators on it.  A call that  *)
(* panics ends the run.                                                    *)
(***************************************************************************)

Init ==
    /\ buffer = FromBuilder(AddNull(NewBuilder)).buffer
    /\ op = "null"
    /\ outcome = "ok"
    /\ pre = <<>>
    /\ arg = <<>>
    /\ key = <<>>
    /\ input = <<>>
    /\ calls = 0
    /\ lhs = <<>> /\ rhs = <<>> /\ third = <<>> /\ ord = <<>>
    /\ builder = <<>> /\ result = <<>>

\* the state after a constructor called with in gave r
Constructed(name, in, r) ==
    /\ op' = name
    /\ input' = in
    /\ outcome' = r.outcome
    /\ pre' = buffer
    /\ buffer' = IF r.outcome = "ok" THEN r.buffer ELSE buffer
    /\ UNCHANGED <<arg, key, calls, lhs, rhs, third, ord, builder, result>>

\* the state after a mutator called with (k, v) gave r
Mutated(name, k, v, r) ==
    /\ op' = name
    /\ key' = k
    /\ arg' = v
    /\ outcome' = r.outcome
    /\ pre' = buffer
    /\ buffer' = IF r.outcome = "ok" THEN r.buffer ELSE buffer
    /\ calls' = calls + 1
    /\ input' = <<>>
    /\ UNCHANGED <<lhs, rhs, third, ord, builder, result>>

\* json.parse::<Value>() / Value::from_text(json)
CallFromText ==
    /\ op = "null"
    /\ \E t \in Texts : Constructed("from_text", t, FromText(t))

\* Value::from(&serde_value)
CallFromSerde ==
    /\ op = "null"
    /\ \E d \in SerdeDocs : Constructed("from_serde", d, FromSerde(d))

\* Value::object(pairs), the views borrowed from other Values
CallObject ==
    /\ op = "null"
    /\ \E ps \in PairLists :
          Constructed("object", ps,
                      ValueObject([i \in 1..Len(ps) |-> <<ps[i][1], AsRef(ps[i][2])>>]))

\* Value::array(views)
CallArray ==
    /\ op = "null"
    /\ \E vs \in RefLists :
          Constructed("array", vs, ValueArray([i \in 1..Len(vs) |-> AsRef(vs[i])]))

\* Value::from(v) for an i64
CallFromI64 ==
    /\ op = "null"
    /\ \E v \in I64Inputs : Constructed("from_i64", v, FromI64(v))

\* Value::from(v) for a u64
CallFromU64 ==
    /\ op = "null"
    /\ \E v \in U64Inputs : Constructed("from_u64", v, FromU64(v))

\* Value::from(v) for an f64
CallFromF64 ==
    /\ op = "null"
    /\ \E p \in F64Inputs : Constructed("from_f64", p, FromF64(p))

\* value.array_push(v.as_ref())
CallArrayPush ==
    /\ outcome = "ok"
    /\ calls < MaxCalls
    /\ \E v \in ArgValues : Mutated("array_push", <<>>, v, ArrayPush(buffer, AsRef(v)))

\* value.object_insert(k, v.as_ref())
CallObjectInsert ==
    /\ outcome = "ok"
    /\ calls < MaxCalls
    /\ \E k \in {KeyA, KeyB}, v \in MemberValues :
          Mutated("object_insert", k, v, ObjectInsert(buffer, k, AsRef(v)))

Next ==
    \/ CallFromText
    \/ CallFromSerde
    \/ CallObject
    \/ CallArray
    \/ CallFromI64
    \/ CallFromU64
    \/ CallFromF64
    \/ CallArrayPush
    \/ CallObjectInsert

Spec == Init /\ [][Next]_vars

(***************************************************************************)
(* Comparing Values: three Values are built, each from a document, and     *)
(* compared with == and cmp (value.rs, impl PartialEq, impl Ord).          *)
(***************************************************************************)

\* the values inside compared containers
OrdMembers == {JPos(I64(1)), JPos(I64(2))}

\* the scalars of the doc example of impl Ord, and numbers of equal value in
\* different kinds
OrdScalarDocs ==
    {JNull, JStr(<<>>), JStr(KeyA), JStr(<<115, 116, 114>>), JNeg(I64(-1)), JPos(Zero8),
     JPos(I64(1)), JFloat(F64One), JFloat(F64OneHalf), JPos(I64(2)),
     JBool(FALSE), JBool(TRUE)}

\* arrays of up to MaxLen members, and a few of other contents
OrdArrayDocs ==
    UNION {{JArr(es) : es \in [1..n -> OrdMembers]} : n \in 0..MaxLen}
    \cup {JArr(<<JFloat(F64One)>>), JArr(<<JFloat(F64One), JPos(I64(2))>>),
          JArr(<<JArr(<<>>)>>), JArr(<<JObj(<<>>, <<>>)>>)}

\* objects of up to two pairs as written, some with the keys in descending order
OrdObjectDocs ==
    {JObj(<<>>, <<>>)}
    \cup {JObj(<<k>>, <<v>>) : k \in {KeyA, KeyB}, v \in OrdMembers}
    \cup {JObj(<<KeyA, KeyB>>, <<v, w>>) : v \in OrdMembers, w \in OrdMembers}
    \cup {JObj(<<KeyB, KeyA>>, <<JPos(I64(2)), JFloat(F64One)>>),
          JObj(<<KeyB, KeyA>>, <<JPos(I64(1)), JPos(I64(2))>>),
          JObj(<<KeyA>>, <<JArr(<<JPos(I64(1)), JPos(I64(2))>>)>>)}

\* the documents parsed from text
OrdTextDocs == OrdScalarDocs \cup OrdArrayDocs \cup OrdObjectDocs

\* the integers converted with From<u64> and From<i64>
OrdBigDocs == {JPos(I64_MAX), JPos(U64_MAX), JNeg(I64_MIN)}

\* a compared Value with the document it was built from
OrdInputs ==
    {[doc |-> d, value |-> FromText(Render(d)).buffer] : d \in OrdTextDocs}
    \cup {[doc |-> d, value |-> FromSerde(d).buffer] : d \in OrdBigDocs}

NotCompared ==
    [ab |-> "None", ba |-> "None", bc |-> "None", ac |-> "None", eq |-> FALSE, qe |-> FALSE]

InitOrd ==
    /\ buffer = FromBuilder(AddNull(NewBuilder)).buffer
    /\ op = "null"
    /\ outcome = "ok"
    /\ pre = <<>>
    /\ arg = <<>>
    /\ key = <<>>
    /\ input = <<>>
    /\ calls = 0
    /\ lhs \in OrdInputs
    /\ rhs \in OrdInputs
    /\ third \in OrdInputs
    /\ builder = <<>> /\ result = <<>>
    /\ ord = NotCompared

\* a == b, b == a, a.cmp(&b), b.cmp(&a), b.cmp(&c), a.cmp(&c)
Compare ==
    /\ ord = NotCompared
    /\ ord' = [ab |-> ValueCmp(lhs.value, rhs.value),
               ba |-> ValueCmp(rhs.value, lhs.value),
               bc |-> ValueCmp(rhs.value, third.value),
               ac |-> ValueCmp(lhs.value, third.value),
               eq |-> ValueEq(lhs.value, rhs.value),
               qe |-> ValueEq(rhs.value, lhs.value)]
    /\ UNCHANGED <<buffer, op, outcome, pre, arg, key, input, calls, lhs, rhs, third,
                   builder, result>>

NextOrd == Compare

SpecOrd == InitOrd /\ [][NextOrd]_vars

(***************************************************************************)
(* Indexing: Value::get with a usize or a &str on a Value of any kind.     *)
(***************************************************************************)

\* keys of wider objects, ascending: a, ab, b, e, f
WideKeys == <<KeyA, <<97, 98>>, KeyB, <<101>>, <<102>>>>

\* objects over every subset of WideKeys, written with the keys descending,
\* the value of a key its place in WideKeys
WideObjectDocs ==
    {LET ks == CHOOSE q \in [1..Cardinality(sub) -> sub] :
                   \A i \in 1..(Cardinality(sub) - 1) : q[i] > q[i + 1]
     IN  JObj([i \in 1..Len(ks) |-> WideKeys[ks[i]]], [i \in 1..Len(ks) |-> JPos(I64(ks[i]))]) :
         sub \in SUBSET (1..Len(WideKeys))}

\* the Values indexed: of every kind, arrays up to MaxLen, objects parsed from
\* text with keys in any order and repeated
GetValues ==
    {FromSerde(d).buffer : d \in ScalarDocs \cup ArrayDocs \cup InnerDocs}
    \cup {FromText(Render(d)).buffer : d \in RawObjectDocs \cup WideObjectDocs}

\* the indexes: positions up to one past the longest array; present keys, keys
\* before, between and after them
Indexes ==
    {AtIndex(i) : i \in 0..(MaxLen + 1)}
    \cup {KeyIndex(k) : k \in {WideKeys[i] : i \in 1..Len(WideKeys)}
                              \cup {<<>>, <<97, 97>>, <<99>>, <<117>>}}

InitGet ==
    /\ buffer \in GetValues
    /\ input \in Indexes
    /\ op = "null"
    /\ outcome = "ok"
    /\ pre = <<>>
    /\ arg = <<>>
    /\ key = <<>>
    /\ calls = 0
    /\ lhs = <<>> /\ rhs = <<>> /\ third = <<>> /\ ord = <<>>
    /\ builder = <<>> /\ result = <<>>

\* value.get(index)
CallGet ==
    /\ op = "null"
    /\ op' = "get"
    /\ result' = ValueGet(buffer, input)
    /\ UNCHANGED <<buffer, outcome, pre, arg, key, input, calls, lhs, rhs, third, ord,
                   builder>>

NextGet == CallGet

SpecGet == InitGet /\ [][NextGet]_vars

(***************************************************************************)
(* Entries: the constructors of Entry and set_offset, called with offsets  *)
(* on both sides of the 29-bit limit (entry.rs).                           *)
(***************************************************************************)

\* offsets: small ones, each byte of the word in use, the largest accepted,
\* the smallest refused and larger ones
Offsets ==
    {0, 1, 255, 256, 65535, 65536, 16777216, 305419896 % Pow2(29), Pow2(29) - 2,
     Pow2(29) - 1, Pow2(29), Pow2(29) + 1, Pow2(30), Pow2(30) + 5, Pow2(30) + Pow2(29) + 7}

\* entries set_offset is called on: of every tag, 7 too, since an Entry is
\* any four bytes
EntryWords ==
    {EntryNull, EntryFalse, EntryTrue}
    \cup {TaggedWord(tag, off) : tag \in 0..7, off \in {0, 1, 74565, Pow2(29) - 1}}

InitEntry ==
    /\ arg \in EntryWords
    /\ input \in Offsets
    /\ op = "null"
    /\ outcome = "ok"
    /\ buffer = <<>>
    /\ pre = <<>>
    /\ key = <<>>
    /\ calls = 0
    /\ lhs = <<>> /\ rhs = <<>> /\ third = <<>> /\ ord = <<>>
    /\ builder = <<>> /\ result = <<>>

\* the state after an Entry function called name returned e, or panicked
Returned(name, e) ==
    /\ op = "null"
    /\ op' = name
    /\ result' = e
    /\ outcome' = IF e = Panicked THEN "panic" ELSE "ok"
    /\ UNCHANGED <<buffer, pre, arg, key, input, calls, lhs, rhs, third, ord, builder>>

\* Entry::number(offset)
MakeNumber == op = "null" /\ Returned("Entry::number", EntryNumber(input))

\* Entry::string(offset)
MakeString == op = "null" /\ Returned("Entry::string", EntryString(input))

\* Entry::array(offset)
MakeArray == op = "null" /\ Returned("Entry::array", EntryArray(input))

\* Entry::object(offset)
MakeObject == op = "null" /\ Returned("Entry::object", EntryObject(input))

\* Entry::null(), Entry::false_(), Entry::true_()
MakeInline ==
    /\ op = "null"
    /\ \/ Returned("Entry::null", EntryNull)
       \/ Returned("Entry::false_", EntryFalse)
       \/ Returned("Entry::true_", EntryTrue)

\* e.set_offset(offset)
CallSetOffset == op = "null" /\ Returned("Entry::set_offset", SetOffset(arg, input))

NextEntry ==
    \/ MakeNumber
    \/ MakeString
    \/ MakeArray
    \/ MakeObject
    \/ MakeInline
    \/ CallSetOffset

SpecEntry == InitEntry /\ [][NextEntry]_vars

(***************************************************************************)
(* Value::from_text step by step: Builder::with_capacity, the visitor run  *)
(* by builder.deserialize, then either the ? that returns the error or     *)
(* Builder::finish.                                                        *)
(***************************************************************************)

\* texts that stop or go wrong inside an open array or object
BrokenTexts ==
    UNION {{SubSeq(Render(d), 1, n) : n \in 1..(Len(Render(d)) - 1)} : d \in NestedDocs}
    \cup {<<"[", "1", ",", "]">>, <<"[", "1", " ", "2", "]">>, <<"[", "[", "]", "}">>,
          <<"{", "1", ":", "2", "}">>, <<"{", "\"", "a", "\"", " ", "1", "}">>,
          <<"{", "\"", "a", "\"", ":", "1", ",", "}">>,
          <<"{", "\"", "a", "\"", ":", "[", "1", ",", "}">>,
          <<"[", "{", "\"", "a", "\"", ":", "n", "u", "l", "]">>,
          <<"{", "\"", "a", "\"", ":", "{", "\"", "b", "\"", "]", "}">>}

ParseTexts == Texts \cup BrokenTexts

InitParse ==
    /\ input \in ParseTexts
    /\ op = "null"
    /\ outcome = "ok"
    /\ buffer = <<>>
    /\ pre = <<>>
    /\ arg = <<>>
    /\ key = <<>>
    /\ calls = 0
    /\ lhs = <<>> /\ rhs = <<>> /\ third = <<>> /\ ord = <<>>
    /\ builder = <<>> /\ result = <<>>

\* let mut builder = Builder::with_capacity(json.len())
WithCapacity ==
    /\ op = "null"
    /\ op' = "Builder::with_capacity"
    /\ builder' = NewBuilder
    /\ UNCHANGED <<buffer, outcome, pre, arg, key, input, calls, lhs, rhs, third, ord, result>>

\* builder.deserialize(&mut deserializer): the visitor feeds the builder
CallDeserialize ==
    /\ op = "Builder::with_capacity"
    /\ LET r == Deserialize(builder, input, 1)
       IN  /\ builder' = r.b
           /\ outcome' = IF r.ok THEN "ok" ELSE "err"
    /\ op' = "Builder::deserialize"
    /\ UNCHANGED <<buffer, pre, arg, key, input, calls, lhs, rhs, third, ord, result>>

\* the ? after deserialize: from_text returns the error
ReturnError ==
    /\ op = "Builder::deserialize"
    /\ outcome = "err"
    /\ op' = "return Err"
    /\ UNCHANGED <<buffer, outcome, builder, pre, arg, key, input, calls, lhs, rhs, third,
                   ord, result>>

\* Ok(builder.finish())
CallFinish ==
    /\ op = "Builder::deserialize"
    /\ outcome = "ok"
    /\ op' = "Builder::finish"
    /\ outcome' = FromBuilder(builder).outcome
    /\ buffer' = FromBuilder(builder).buffer
    /\ UNCHANGED <<builder, pre, arg, key, input, calls, lhs, rhs, third, ord, result>>

NextParse ==
    \/ WithCapacity
    \/ CallDeserialize
    \/ ReturnError
    \/ CallFinish

SpecParse == InitParse /\ [][NextParse]_vars

(***************************************************************************)
(* NodeList (jsonbb_path): the nodes a query yielded, a Vec<ValueRef>, and *)
(* its single-node extractors.                                             *)
(***************************************************************************)

\* the longest list of nodes
MaxNodes == 3

\* Result / Option values the extractors return
OkSome(node) == [tag |-> "Ok", variant |-> "Some", nodes |-> <<node>>, len |-> 0]
OkNone == [tag |-> "Ok", variant |-> "None", nodes |-> <<>>, len |-> 0]
OkNode(node) == [tag |-> "Ok", variant |-> "", nodes |-> <<node>>, len |-> 0]
AtMostOneError(n) == [tag |-> "Err", variant |-> "AtMostOneError", nodes |-> <<>>, len |-> n]
ExactlyOneErrorEmpty == [tag |-> "Err", variant |-> "Empty", nodes |-> <<>>, len |-> 0]
MoreThanOne(n) == [tag |-> "Err", variant |-> "MoreThanOne", nodes |-> <<>>, len |-> n]
SomeNode(node) == [tag |-> "", variant |-> "Some", nodes |-> <<node>>, len |-> 0]
NoNode == [tag |-> "", variant |-> "None", nodes |-> <<>>, len |-> 0]

\* NodeList::at_most_one
AtMostOne(list) ==
    IF Len(list) = 0 THEN OkNone
    ELSE IF Len(list) > 1 THEN AtMostOneError(Len(list))
    ELSE OkSome(list[1])

\* exactly_one that takes the first node of a longer list
ExactlyOneOfMany(list) ==
    IF Len(list) = 0 THEN ExactlyOneErrorEmpty ELSE OkNode(list[1])

\* NodeList::exactly_one
ExactlyOne(list) ==
    IF Len(list) = 0 THEN ExactlyOneErrorEmpty
    ELSE IF Len(list) > 1 THEN MoreThanOne(Len(list))
    ELSE OkNode(list[1])

\* NodeList::one
One(list) ==
    IF Len(list) = 0 \/ Len(list) > 1 THEN NoNode
    ELSE SomeNode(list[1])

\* the document {"a": ["a", "ab"]}, as in the doc examples
NodeDoc == JObj(<<KeyA>>, <<JArr(<<JStr(KeyA), JStr(<<97, 98>>)>>)>>)

\* the nodes of the document held in bytes: the root, $.a and its elements
Nodes(bytes) ==
    LET root == AsRef(bytes)
        inner == ObjectGet(root, KeyA)
    IN  {root, inner, ArrayGet(inner, 0), ArrayGet(inner, 1)}

NodeLists(bytes) == UNION {[1..n -> Nodes(bytes)] : n \in 0..MaxNodes}

InitNodes ==
    /\ buffer = FromText(Render(NodeDoc)).buffer
    /\ arg \in NodeLists(buffer)
    /\ pre = arg
    /\ op = "null"
    /\ outcome = "ok"
    /\ key = <<>>
    /\ input = <<>>
    /\ calls = 0
    /\ lhs = <<>> /\ rhs = <<>> /\ third = <<>> /\ ord = <<>>
    /\ builder = <<>> /\ result = <<>>

\* nodes.at_most_one()
CallAtMostOne ==
    /\ op = "null"
    /\ op' = "NodeList::at_most_one"
    /\ result' = AtMostOne(arg)
    /\ UNCHANGED <<buffer, outcome, pre, arg, key, input, calls, lhs, rhs, third, ord, builder>>

\* nodes.exactly_one()
CallExactlyOne ==
    /\ op = "null"
    /\ op' = "NodeList::exactly_one"
    /\ result' = ExactlyOne(arg)
    /\ UNCHANGED <<buffer, outcome, pre, arg, key, input, calls, lhs, rhs, third, ord, builder>>

\* nodes.one(): the list is moved into the call
CallOne ==
    /\ op = "null"
    /\ op' = "NodeList::one"
    /\ result' = One(arg)
    /\ UNCHANGED <<buffer, outcome, pre, arg, key, input, calls, lhs, rhs, third, ord, builder>>

NextNodes ==
    \/ CallAtMostOne
    \/ CallExactlyOne
    \/ CallOne

SpecNodes == InitNodes /\ [][NextNodes]_vars

(***************************************************************************)
(* Claims                                                                  *)
(***************************************************************************)

\* json is exactly one root value, with nothing but whitespace after it
WholeInput(json) ==
    LET r == Deserialize(NewBuilder, json, 1)
    IN  r.ok /\ SkipWs(json, r.pos) > Len(json)

\* C1: from_text returns Ok only when the whole input is consumed by exactly
\* one root value; with anything but whitespace after the root value it
\* returns a parse error and no Value.
C1_TrailingDataIsParseError ==
    op = "from_text" => (outcome = "ok" <=> WholeInput(input))

\* the keys of an object view are strictly ascending in byte order
KeysAscending(ref) ==
    \A i \in 0..(ContainerLen(ref) - 2) :
        BytesCmp(ObjectKeyAt(ref, i), ObjectKeyAt(ref, i + 1)) = "Less"

\* C2: on an object root object_insert(k, v) returns, and then get(k) equals
\* v, every other key keeps its value, the length grows by one if k was
\* absent and is unchanged if it was present, and the keys are still strictly
\* ascending.
C2_ObjectInsertBinds ==
    (op = "object_insert" /\ AsRef(pre).kind = "Object") =>
        /\ outcome = "ok"
        /\ RefEq(ObjectGet(AsRef(buffer), key), AsRef(arg))
        /\ \A k \in Keys \ {key} :
              ToSerde(ObjectGet(AsRef(buffer), k)) = ToSerde(ObjectGet(AsRef(pre), k))
        /\ ContainerLen(AsRef(buffer)) =
              ContainerLen(AsRef(pre))
                  + (IF ObjectGet(AsRef(pre), key) = None THEN 1 ELSE 0)
        /\ KeysAscending(AsRef(buffer))

\* a mutator was called on a root of the wrong kind
WrongRoot ==
    \/ op = "array_push" /\ AsRef(pre).kind # "Array"
    \/ op = "object_insert" /\ AsRef(pre).kind # "Object"

\* C3 as stated: a mutator on a root of the wrong kind returns a recoverable
\* type-mismatch error, it does not abort.
C3_WrongRootIsRecoverable == WrongRoot => outcome = "err"

\* C3 as amended: array_push on a root that is not an array, and object_insert
\* on a root that is not an object, panic for every root kind, and leave the
\* value as it was.
C3_WrongRootPanics == WrongRoot => (outcome = "panic" /\ buffer = pre)

C3_Witness ==
    /\ op = "array_push"
    /\ AsRef(pre).kind = "Object"
    /\ outcome = "panic"

\* C4: array_push(v) on an array of n elements gives an array of n + 1
\* elements: the n it had, in order, then v; after any number of pushes.
C4_ArrayPushAppends ==
    (op = "array_push" /\ AsRef(pre).kind = "Array") =>
        /\ outcome = "ok"
        /\ AsRef(buffer).kind = "Array"
        /\ ContainerLen(AsRef(buffer)) = ContainerLen(AsRef(pre)) + 1
        /\ ValueToSerde(buffer) = JArr(Append(ValueToSerde(pre).c, ValueToSerde(arg)))

\* [1] after null, 2 and "ab" were pushed: three pushes, four elements
C4_Witness ==
    /\ op = "array_push"
    /\ calls = 3
    /\ outcome = "ok"
    /\ ValueToSerde(buffer) =
          JArr(<<JPos(I64(1)), JNull, JPos(I64(2)), JStr(<<97, 98>>)>>)

RECURSIVE AllObjectsSorted(_)
\* every object in a value, at any depth, has strictly ascending keys
AllObjectsSorted(ref) ==
    IF ref.kind = "Array"
    THEN \A i \in 0..(ContainerLen(ref) - 1) : AllObjectsSorted(ArrayGet(ref, i))
    ELSE IF ref.kind = "Object"
    THEN /\ KeysAscending(ref)
         /\ \A i \in 0..(ContainerLen(ref) - 1) : AllObjectsSorted(ObjectValueAt(ref, i))
    ELSE TRUE

\* C5: every object of a value built by parsing, by Value::object or from a
\* serde_json::Value, at any depth, yields its keys in strictly ascending byte
\* order, no key twice, whatever the order they were given in.
C5_KeysSortedUnique ==
    (op \in {"from_text", "from_serde", "object"} /\ outcome = "ok") =>
        AllObjectsSorted(AsRef(buffer))

\* the text [{"b":X,"a":X}] with X = {"b":null,"a":1,"b":1.0}: keys given in
\* descending order and twice, two levels deep
C5_Witness ==
    /\ op = "from_text"
    /\ outcome = "ok"
    /\ input = Render(JArr(<<JObj(<<KeyB, KeyA>>,
                                  <<JObj(<<KeyB, KeyA, KeyB>>,
                                         <<JNull, JPos(I64(1)), JFloat(F64One)>>),
                                    JObj(<<KeyB, KeyA, KeyB>>,
                                         <<JNull, JPos(I64(1)), JFloat(F64One)>>)>>)>>))
    /\ ObjectKeys(ArrayGet(AsRef(buffer), 0)) = <<KeyA, KeyB>>
    /\ ObjectKeys(ObjectGet(ArrayGet(AsRef(buffer), 0), KeyA)) = <<KeyA, KeyB>>

\* the index of the last pair of ks with key k
LastIndex(ks, k) == CHOOSE i \in 1..Len(ks) : ks[i] = k /\ \A j \in (i + 1)..Len(ks) : ks[j] # k

\* the object view holds, for every key of ks, the value given last for it,
\* and one pair per key
LastWriteWins(ref, ks, vals) ==
    /\ ref.kind = "Object"
    /\ ContainerLen(ref) = Cardinality({ks[i] : i \in 1..Len(ks)})
    /\ \A i \in 1..Len(ks) : ToSerde(ObjectGet(ref, ks[i])) = vals[LastIndex(ks, ks[i])]
    /\ \A i \in 1..ContainerLen(ref) :
          ObjectPairs(ref)[i][2] = ObjectGet(ref, ObjectPairs(ref)[i][1])

\* the objects as written, each with its text
WrittenObjects == {[text |-> Render(d), doc |-> d] : d \in RawObjectDocs}

\* C6: a key given more than once between begin_object and end_object holds
\* the value of its last insertion, for any number of repeats interleaved
\* with other keys; the earlier values are reachable neither through get nor
\* through iteration.
C6_LastWriteWins ==
    /\ (op = "object" /\ outcome = "ok") =>
          LastWriteWins(AsRef(buffer), [i \in 1..Len(input) |-> input[i][1]],
                        [i \in 1..Len(input) |-> ValueToSerde(input[i][2])])
    /\ (op = "from_text" /\ outcome = "ok") =>
          \A w \in WrittenObjects :
              input = w.text => LastWriteWins(AsRef(buffer), w.doc.ks, w.doc.c)

\* Value::object with ("a", 2), ("b", 2), ("a", {"b":true}): a is given twice
\* around b, and holds the object given last
C6_Witness ==
    /\ op = "object"
    /\ outcome = "ok"
    /\ Len(input) = 3
    /\ input[1][1] = KeyA /\ input[2][1] = KeyB /\ input[3][1] = KeyA
    /\ input[1][2] # input[3][2]
    /\ ValueToSerde(input[3][2]).k = "Object"
    /\ ToSerde(ObjectGet(AsRef(buffer), KeyA)) = ValueToSerde(input[3][2])
    /\ ContainerLen(AsRef(buffer)) = 2

\* the comparisons of the three Values were made
Compared == ord # NotCompared

NumberKinds == {"PosInt", "NegInt", "Float"}

\* two number documents have the same mathematical value
SameNumber(d, e) ==
    IF d.k # "Float" /\ e.k # "Float" THEN d.k = e.k /\ d.v = e.v
    ELSE IF d.k = "Float" /\ e.k = "Float" THEN F64Sixteenths(d.v) = F64Sixteenths(e.v)
    ELSE LET i == IF d.k = "Float" THEN e ELSE d
             f == IF d.k = "Float" THEN d ELSE e
             v == i.v \o <<IF i.k = "NegInt" THEN 255 ELSE 0>>
         IN  Fits3(v) /\ SmallInt(v) * 16 = F64Sixteenths(f.v)

RECURSIVE SameLogical(_, _)
\* two documents denote the same JSON value: numbers by mathematical value,
\* objects as mappings from keys to values (no key is written twice)
SameLogical(d, e) ==
    IF d.k \in NumberKinds /\ e.k \in NumberKinds THEN SameNumber(d, e)
    ELSE /\ d.k = e.k
         /\ d.v = e.v
         /\ IF d.k = "Array"
            THEN /\ Len(d.c) = Len(e.c)
                 /\ \A i \in 1..Len(d.c) : SameLogical(d.c[i], e.c[i])
            ELSE IF d.k = "Object"
            THEN /\ {d.ks[i] : i \in 1..Len(d.ks)} = {e.ks[j] : j \in 1..Len(e.ks)}
                 /\ \A i \in 1..Len(d.ks) : \A j \in 1..Len(e.ks) :
                        d.ks[i] = e.ks[j] => SameLogical(d.c[i], e.c[j])
            ELSE TRUE

\* C7: == on Values is logical equality: two Values are equal exactly when
\* their documents denote the same JSON value, in whatever order the keys of
\* an object were written and in whatever kind a number is stored.
C7_EqualityIsLogical ==
    Compared => (ord.eq <=> SameLogical(lhs.doc, rhs.doc))

\* {"a":1,"b":2} == {"b":2,"a":1.0}, two different buffers
C7_Witness ==
    /\ Compared
    /\ lhs.doc = JObj(<<KeyA, KeyB>>, <<JPos(I64(1)), JPos(I64(2))>>)
    /\ rhs.doc = JObj(<<KeyB, KeyA>>, <<JPos(I64(2)), JFloat(F64One)>>)
    /\ lhs.value # rhs.value
    /\ ord.eq

\* the kind classes, lowest first
KindClasses == <<"Null", "String", "Number", "Bool", "Array", "Object">>

\* the place of a document's kind class among the kind classes
ClassOf(d) ==
    LET class == IF d.k \in NumberKinds THEN "Number" ELSE d.k
    IN  CHOOSE i \in 1..Len(KindClasses) : KindClasses[i] = class

\* the doc example of impl Ord, with 1.5 for 3.14
AscendingExample ==
    <<JNull, JStr(<<115, 116, 114>>), JNeg(I64(-1)), JPos(Zero8), JFloat(F64OneHalf),
      JBool(FALSE), JBool(TRUE), JArr(<<>>), JObj(<<>>, <<>>)>>

\* C8: two Values of different kind classes are ordered by kind class alone,
\* Object > Array > Boolean > Number > String > Null, whatever they hold; true
\* is greater than false; and the values of the doc example are ascending.
C8_KindClassDecides ==
    Compared =>
        /\ ClassOf(lhs.doc) # ClassOf(rhs.doc) =>
              ord.ab = IntCmp(ClassOf(lhs.doc), ClassOf(rhs.doc))
        /\ (lhs.doc = JBool(TRUE) /\ rhs.doc = JBool(FALSE)) => ord.ab = "Greater"
        /\ \A i, j \in 1..Len(AscendingExample) :
              (i < j /\ lhs.doc = AscendingExample[i] /\ rhs.doc = AscendingExample[j])
                  => ord.ab = "Less"

\* the empty object is greater than an array of two elements, which is
\* greater than the largest number
C8_Witness ==
    /\ Compared
    /\ lhs.doc = JObj(<<>>, <<>>)
    /\ rhs.doc = JArr(<<JPos(I64(2)), JPos(I64(2))>>)
    /\ third.doc = JPos(U64_MAX)
    /\ ord.ab = "Greater"
    /\ ord.bc = "Greater"

\* C9: cmp is a total order consistent with ==: cmp gives Equal exactly when
\* == holds, == is symmetric, cmp(b, a) is the reverse of cmp(a, b), and
\* a <= b and b <= c give a <= c, strictly if either is strict.
C9_TotalOrder ==
    Compared =>
        /\ ord.ab \in Ordering
        /\ (ord.ab = "Equal") <=> ord.eq
        /\ ord.eq <=> ord.qe
        /\ ord.ba = Reverse(ord.ab)
        /\ (ord.ab = "Less" /\ ord.bc = "Less") => ord.ac = "Less"
        /\ (ord.ab = "Equal" /\ ord.bc = "Less") => ord.ac = "Less"
        /\ (ord.ab = "Less" /\ ord.bc = "Equal") => ord.ac = "Less"
        /\ (ord.ab = "Equal" /\ ord.bc = "Equal") => ord.ac = "Equal"

\* 1 == 1.0 < 1.5: an integer, a float of the same value and a greater float
C9_Witness ==
    /\ Compared
    /\ lhs.doc = JPos(I64(1))
    /\ rhs.doc = JFloat(F64One)
    /\ third.doc = JFloat(F64OneHalf)
    /\ ord.eq
    /\ ord.ab = "Equal"
    /\ ord.bc = "Less"
    /\ ord.ac = "Less"

\* the keys of an object document in ascending byte order
KeysInOrder(d) ==
    CHOOSE ks \in [1..Len(d.ks) -> {d.ks[i] : i \in 1..Len(d.ks)}] :
        \A i \in 1..(Len(d.ks) - 1) : BytesCmp(ks[i], ks[i + 1]) = "Less"

\* what a container document is compared by, position after position: the
\* elements of an array; key-1, value-1, key-2, ... of an object, the keys
\* ascending
Positions(d) ==
    IF d.k = "Array" THEN d.c
    ELSE LET ks == KeysInOrder(d)
         IN  [p \in 1..(2 * Len(ks)) |->
                 IF p % 2 = 1 THEN JStr(ks[(p + 1) \div 2])
                 ELSE d.c[CHOOSE i \in 1..Len(d.ks) : d.ks[i] = ks[p \div 2]]]

RECURSIVE FirstDifference(_, _, _)
\* the order of the first position from p on where xs and ys differ
FirstDifference(xs, ys, p) ==
    IF p > Len(xs) THEN "Equal"
    ELSE LET c == ValueCmp(FromSerde(xs[p]).buffer, FromSerde(ys[p]).buffer)
         IN  IF c # "Equal" THEN c ELSE FirstDifference(xs, ys, p + 1)

\* C10: two arrays, and two objects, are ordered by their counts when the
\* counts differ, whatever they hold, and position by position when the
\* counts are equal.
C10_CountThenPositions ==
    (Compared /\ lhs.doc.k = rhs.doc.k /\ lhs.doc.k \in {"Array", "Object"}) =>
        IF Len(lhs.doc.c) # Len(rhs.doc.c)
        THEN ord.ab = IntCmp(Len(lhs.doc.c), Len(rhs.doc.c))
        ELSE ord.ab = FirstDifference(Positions(lhs.doc), Positions(rhs.doc), 1)

\* [2] < [1,1] by the counts, and [1,1] < [1,2] by the second element
C10_Witness ==
    /\ Compared
    /\ lhs.doc = JArr(<<JPos(I64(2))>>)
    /\ rhs.doc = JArr(<<JPos(I64(1)), JPos(I64(1))>>)
    /\ third.doc = JArr(<<JPos(I64(1)), JPos(I64(2))>>)
    /\ ord.ab = "Less"
    /\ ord.bc = "Less"

\* C11: get never fails, and returns Some exactly for a position below the
\* length of an array and for a key an object holds, and then the element or
\* the value there; it returns None for a position past the end, an absent
\* key, a key on an array, a position on an object, and anything on a scalar.
C11_GetAbsentOnMismatch ==
    op = "get" =>
        LET doc == ValueToSerde(buffer)
            inRange == ~input.isKey /\ doc.k = "Array" /\ input.at < Len(doc.c)
            present == input.isKey /\ doc.k = "Object"
                          /\ \E i \in 1..Len(doc.ks) : doc.ks[i] = input.key
        IN  /\ outcome = "ok"
            /\ result # None <=> (inRange \/ present)
            /\ inRange => ToSerde(result) = doc.c[input.at + 1]
            /\ present => \E i \in 1..Len(doc.ks) :
                              doc.ks[i] = input.key /\ ToSerde(result) = doc.c[i]

\* get(1) on {"a":1,"b":"a"}: a position applied to an object of two pairs
C11_Witness ==
    /\ op = "get"
    /\ ValueToSerde(buffer) = JObj(<<KeyA, KeyB>>, <<JPos(I64(1)), JStr(KeyA)>>)
    /\ input = AtIndex(1)
    /\ result = None

\* the places (1-based) at which iterating an object view yields key k
PlacesOf(ref, k) == {i \in 1..ContainerLen(ref) : ObjectPairs(ref)[i][1] = k}

\* C15: on an object, get(k) returns Some(v) exactly when iteration yields a
\* pair with key k, v being the value of that pair, and None exactly when no
\* pair has key k; for the first, the last and every other key.
C15_GetAgreesWithIteration ==
    (op = "get" /\ input.isKey /\ AsRef(buffer).kind = "Object") =>
        LET ref == AsRef(buffer)
            places == PlacesOf(ref, input.key)
        IN  /\ result = None <=> places = {}
            /\ \A i \in places : RefEq(result, ObjectPairs(ref)[i][2])
            /\ \A i \in 1..ContainerLen(ref) :
                  LET found == ValueGet(buffer, KeyIndex(ObjectPairs(ref)[i][1]))
                  IN  found # None /\ RefEq(found, ObjectPairs(ref)[i][2])

\* get("f") on the object of the five keys a, ab, b, e, f: the last key
C15_Witness ==
    /\ op = "get"
    /\ AsRef(buffer).kind = "Object"
    /\ ObjectKeys(AsRef(buffer)) = WideKeys
    /\ input = KeyIndex(WideKeys[5])
    /\ ToSerde(result) = JPos(I64(5))

\* the tag a constructor named name gives its entry
TagOf(name) ==
    CASE name = "Entry::null" -> 0 [] name = "Entry::string" -> 1
      [] name = "Entry::number" -> 2 [] name = "Entry::false_" -> 3
      [] name = "Entry::true_" -> 4 [] name = "Entry::array" -> 5
      [] name = "Entry::object" -> 6

\* the constructors that take an offset
OffsetConstructors == {"Entry::number", "Entry::string", "Entry::array", "Entry::object"}

\* the u32 of an entry word, in two halves to stay within the integers
HighHalf(e) == e[3] + 256 * e[4]
LowHalf(e) == e[1] + 256 * e[2]

\* C12: number, string, array, object and set_offset accept every offset up
\* to 2^29 - 1 and panic for every offset from 2^29 on; the word of an accepted
\* offset is the tag in the three high bits over the offset, untruncated, in
\* the 29 low bits.
C12_OffsetLimit ==
    op \in OffsetConstructors \cup {"Entry::set_offset"} =>
        LET tag == IF op = "Entry::set_offset" THEN EntryTag(arg) ELSE TagOf(op)
        IN  IF input < Pow2(29)
            THEN /\ outcome = "ok"
                 /\ LowHalf(result) = input % 65536
                 /\ HighHalf(result) = tag * Pow2(13) + input \div 65536
            ELSE outcome = "panic" /\ result = Panicked

\* Entry::array(2^29): the smallest offset refused
C12_Witness ==
    /\ op = "Entry::array"
    /\ input = Pow2(29)
    /\ outcome = "panic"

\* C16: after set_offset(e, off) with off < 2^29 the tag of e is what it was
\* and its offset is off; each constructor gives an entry of its own tag and
\* of the offset it was given, and null, false_ and true_ have offset 0.
C16_TagAndOffsetRoundTrip ==
    /\ (op = "Entry::set_offset" /\ input < Pow2(29)) =>
          (EntryTag(result) = EntryTag(arg) /\ EntryOffset(result) = input)
    /\ (op \in OffsetConstructors /\ input < Pow2(29)) =>
          (EntryTag(result) = TagOf(op) /\ EntryOffset(result) = input)
    /\ op \in {"Entry::null", "Entry::false_", "Entry::true_"} =>
          (EntryTag(result) = TagOf(op) /\ EntryOffset(result) = 0)

\* set_offset(0) on an Object entry of offset 2^29 - 1: every offset bit is
\* cleared, the tag stays
C16_Witness ==
    /\ op = "Entry::set_offset"
    /\ arg = TaggedWord(OBJECT_TAG, Pow2(29) - 1)
    /\ input = 0
    /\ EntryTag(result) = OBJECT_TAG
    /\ EntryOffset(result) = 0

\* an f64 is NaN or an infinity: its eleven exponent bits are all ones
NonFinite(p) == p[8] \in {127, 255} /\ p[7] >= 240

RECURSIVE NumberRecords(_)
\* the number records of a value, at any depth
NumberRecords(ref) ==
    IF ref.kind = "Number" THEN {ref.data}
    ELSE IF ref.kind = "Array"
    THEN UNION {NumberRecords(ArrayGet(ref, i)) : i \in 0..(ContainerLen(ref) - 1)}
    ELSE IF ref.kind = "Object"
    THEN UNION {NumberRecords(ObjectValueAt(ref, i)) : i \in 0..(ContainerLen(ref) - 1)}
    ELSE {}

\* C13: Value::from of a NaN, of +infinity and of -infinity panics and yields
\* no Value, Value::from of a finite f64 yields one, and no number record of
\* a buffer any operation produced holds a non-finite f64.
C13_NonFiniteRejected ==
    /\ op = "from_f64" =>
          IF NonFinite(input) THEN outcome = "panic" /\ buffer = pre
          ELSE outcome = "ok" /\ AsRef(buffer) = [kind |-> "Number", data |-> <<40>> \o input]
    /\ \A rec \in NumberRecords(AsRef(buffer)) : rec[1] = 40 => ~NonFinite(Tail(rec))

\* Value::from(f64::NEG_INFINITY)
C13_Witness ==
    /\ op = "from_f64"
    /\ input = <<0, 0, 0, 0, 0, 0, 240, 255>>
    /\ outcome = "panic"

\* v, nine bytes of two's complement, lies between the small integers lo and hi
Between(v, lo, hi) ==
    LET nine(n) == I64(n) \o <<IF n < 0 THEN 255 ELSE 0>>
    IN  Int9Cmp(nine(lo), v) # "Greater" /\ Int9Cmp(v, nine(hi)) # "Greater"

\* the kind byte of the narrowest kind that holds v, nine bytes of two's
\* complement
NarrowestKind(v) ==
    IF v = I64(0) \o <<0>> THEN 0
    ELSE IF Between(v, -128, 127) THEN 1
    ELSE IF Between(v, -32768, 32767) THEN 2
    ELSE IF Between(v, -2147483647 - 1, 2147483647) THEN 4
    ELSE IF Int9Cmp(I64_MIN \o <<255>>, v) # "Greater" /\ Int9Cmp(v, I64_MAX \o <<0>>) # "Greater"
    THEN 8
    ELSE 24

\* a number record holds v in the narrowest kind: the kind byte, as many
\* payload bytes as its low nibble says, and they are the low bytes of v
NarrowRecord(rec, v) ==
    /\ rec[1] = NarrowestKind(v)
    /\ Len(rec) = 1 + (rec[1] % 16)
    /\ SubSeq(rec, 2, Len(rec)) = SubSeq(v, 1, rec[1] % 16)

\* C14: the record of Value::from(i64) and of Value::from(u64) holds the
\* integer in the narrowest kind, 0x00 without payload for zero, then i8, i16,
\* i32, i64, and 0x18 only for a u64 above i64::MAX; and every integer record
\* of a buffer any operation produced is of the narrowest kind for its value.
C14_NarrowestIntegerKind ==
    /\ op = "from_i64" =>
          (outcome = "ok" /\ AsRef(buffer).kind = "Number"
             /\ NarrowRecord(AsRef(buffer).data, input \o <<SignExt(input[8])>>))
    /\ op = "from_u64" =>
          (outcome = "ok" /\ AsRef(buffer).kind = "Number"
             /\ NarrowRecord(AsRef(buffer).data, input \o <<0>>))
    /\ \A rec \in NumberRecords(AsRef(buffer)) :
          rec[1] # 40 => NarrowRecord(rec, IntBytes9(rec))

\* Value::from(i64::MAX as u64 + 1): the smallest integer of kind 0x18
C14_Witness ==
    /\ op = "from_u64"
    /\ input = <<0, 0, 0, 0, 0, 0, 0, 128>>
    /\ outcome = "ok"
    /\ AsRef(buffer).data = <<24, 0, 0, 0, 0, 0, 0, 0, 128>>

RECURSIVE SumCapacity(_, _)
\* the bytes the elements i.. of an array view take
SumCapacity(ref, i) ==
    IF i >= ContainerLen(ref) THEN 0
    ELSE Capacity(ArrayGet(ref, i)) + SumCapacity(ref, i + 1)

\* C17: after every array_push the trailer of the buffer is consistent: the
\* last four bytes are an Array entry of offset length - 4, the size word
\* before it is length - 4, the count word before that is one more than
\* before the push (so the initial count plus the pushes), the count entry
\* words before it follow the bytes of the elements exactly, and every entry
\* offset is below the length.
C17_TrailerConsistent ==
    (op = "array_push" /\ outcome = "ok") =>
        LET n == Len(buffer)
            count == GetU32(buffer, n - 12)
            words == n - 12 - 4 * count
        IN  /\ EntryTag(SubSeq(buffer, n - 3, n)) = 5
            /\ EntryOffset(SubSeq(buffer, n - 3, n)) = n - 4
            /\ GetU32(buffer, n - 8) = n - 4
            /\ count = GetU32(pre, Len(pre) - 12) + 1
            /\ words >= 0
            /\ SumCapacity(AsRef(buffer), 0) = words
            /\ \A i \in 0..(count - 1) :
                  EntryOffset(SubSeq(buffer, words + 4 * i + 1, words + 4 * i + 4)) < n

\* [[], {"a":null}] after three pushes, the last of {"a":"ab","b":[]}: five
\* elements, containers among them
C17_Witness ==
    /\ op = "array_push"
    /\ outcome = "ok"
    /\ calls = 3
    /\ GetU32(buffer, Len(buffer) - 12) = 5
    /\ ArrayGet(AsRef(buffer), 0).kind = "Array"
    /\ ArrayGet(AsRef(buffer), 4).kind = "Object"

RECURSIVE WellNested(_, _, _)
\* the events of log are well-formed after the containers of open (innermost
\* last, each with the number of values written into it) and roots values
\* at the top level: every end closes the innermost open container of its
\* kind, an object takes a key (add_string) and a value in turn and is
\* closed after a value, and the whole log writes one root value
WellNested(log, open, roots) ==
    IF log = <<>> THEN open = <<>> /\ roots = 1
    ELSE LET e == Head(log)
             depth == Len(open)
             top == open[depth]
             keyDue == depth > 0 /\ top.kind = "object" /\ top.n % 2 = 0
             counted == IF depth = 0 THEN open ELSE [open EXCEPT ![depth].n = @ + 1]
             written == IF depth = 0 THEN roots + 1 ELSE roots
         IN  IF e \in {"begin_array", "begin_object"}
             THEN /\ ~keyDue
                  /\ WellNested(Tail(log),
                                Append(counted, [kind |-> IF e = "begin_array" THEN "array"
                                                          ELSE "object", n |-> 0]),
                                written)
             ELSE IF e = "end_array"
             THEN /\ depth > 0
                  /\ top.kind = "array"
                  /\ WellNested(Tail(log), SubSeq(open, 1, depth - 1), roots)
             ELSE IF e = "end_object"
             THEN /\ depth > 0
                  /\ top.kind = "object"
                  /\ top.n % 2 = 0
                  /\ WellNested(Tail(log), SubSeq(open, 1, depth - 1), roots)
             ELSE /\ keyDue => e = "add_string"
                  /\ WellNested(Tail(log), counted, written)

\* what holds of from_text after each step: once finish is called the visitor
\* has completed, the events fed to the builder are well-formed and the Value
\* is the finished builder; after a failed visit no Value has been made
FinishedWellFormed ==
    /\ op = "Builder::finish" =>
           /\ Deserialize(NewBuilder, input, 1).ok
           /\ builder = Deserialize(NewBuilder, input, 1).b
           /\ WellNested(builder.log, <<>>, 0)
           /\ outcome = "ok"
           /\ buffer = Finish(builder)
    /\ (op \in {"Builder::deserialize", "return Err"} /\ outcome = "err") =>
           /\ ~Deserialize(NewBuilder, input, 1).ok
           /\ buffer = <<>>
    /\ op = "return Err" => outcome = "err"

\* a step of from_text calls finish only from a completed visit, and a step
\* taken after a failed visit neither calls finish nor makes a Value
FinishFollowsSuccess ==
    /\ op' = "Builder::finish" => (op = "Builder::deserialize" /\ outcome = "ok")
    /\ (op \in {"Builder::deserialize", "return Err"} /\ outcome = "err") =>
           (op' = "return Err" /\ outcome' = "err" /\ buffer' = <<>>)

\* C18: from_text calls Builder::finish only after the visitor has completed
\* successfully, and then the events fed to the builder are well-formed
\* (begin and end matched and nested, key then value inside an object, one
\* root value) and the Value is the finished builder; when the visitor fails,
\* also inside an open array or object, finish is never called and no Value
\* is returned.
C18_FinishOnlyAfterCompleteVisit == []FinishedWellFormed /\ [][FinishFollowsSuccess]_vars

\* finish called after an array holding an object of two pairs was visited
C18_Witness ==
    /\ op = "Builder::finish"
    /\ outcome = "ok"
    /\ builder.log = <<"begin_array", "begin_object", "add_string", "begin_array",
                       "end_array", "add_string", "begin_array", "end_array", "end_object",
                       "end_array">>

\* the error returned while an array inside an object is still open
C18_FailedInsideOpen ==
    /\ op = "return Err"
    /\ Len(builder.scopes) = 2
    /\ builder.scopes[1].kind = "object"
    /\ builder.scopes[2].kind = "array"

\* C19: on a list of n nodes exactly_one gives Ok(node 0) iff n = 1,
\* Err(Empty) iff n = 0 and Err(MoreThanOne(n)) iff n > 1; at_most_one gives
\* Ok(None) iff n = 0, Ok(Some(node 0)) iff n = 1 and Err(AtMostOneError(n))
\* iff n > 1; one gives Some(node 0) iff n = 1 and None otherwise; the list is
\* as it was before the call.
C19_ExtractorsAgree ==
    LET n == Len(pre)
        node == <<pre[1]>>
    IN  /\ op = "NodeList::exactly_one" =>
               /\ (result.tag = "Ok") <=> (n = 1)
               /\ (result.variant = "Empty") <=> (n = 0)
               /\ (result.variant = "MoreThanOne") <=> (n > 1)
               /\ result.tag \in {"Ok", "Err"}
               /\ (result.tag = "Err") <=> (result.variant \in {"Empty", "MoreThanOne"})
               /\ n = 1 => result.nodes = node
               /\ n > 1 => result.len = n
        /\ op = "NodeList::at_most_one" =>
               /\ (result.tag = "Ok" /\ result.variant = "None") <=> (n = 0)
               /\ (result.tag = "Ok" /\ result.variant = "Some") <=> (n = 1)
               /\ (result.tag = "Err" /\ result.variant = "AtMostOneError") <=> (n > 1)
               /\ n = 1 => result.nodes = node
               /\ n > 1 => result.len = n
        /\ op = "NodeList::one" =>
               /\ (result.variant = "Some") <=> (n = 1)
               /\ (result.variant = "None") <=> (n # 1)
               /\ n = 1 => result.nodes = node
        /\ arg = pre

\* exactly_one called on a list of three nodes whose first is the document
C19_Witness ==
    /\ op = "NodeList::exactly_one"
    /\ Len(arg) = 3
    /\ arg[1].kind = "Object"
    /\ arg[2].kind = "String"
    /\ result = MoreThanOne(3)

====
